---- MODULE Spec2Model ----
(***************************************************************************)
(* Follow-up ranking of the lead-management page (src/src/app/page.tsx,    *)
(* fetchFollowUps).  The query answer is sorted in place by a comparator   *)
(* that buckets every follow-up as Today / Upcoming / Past relative to the *)
(* local calendar day of the clock, the result is stored in followUps, and *)
(* each lead's own list is the filtered array sorted by a second           *)
(* comparator.                                                             *)
(*                                                                         *)
(* Time is counted in ticks of 24/DayLen hours since the epoch (UTC).  A   *)
(* follow_up_date string is one of                                         *)
(*   [kind |-> "date", v |-> d]   "YYYY-MM-DD", day number d               *)
(*   [kind |-> "ts",   v |-> t]   an ISO timestamp with offset, instant t  *)
(*   [kind |-> "bad",  v |-> 0]   a string Date cannot parse               *)
(* JavaScript numbers are [nan, n] so that NaN is a value of its own.      *)
(***************************************************************************)
EXTENDS Integers, Sequences, FiniteSets, TLC

VARIABLES
    now,            \* value returned by new Date(): instant of the clock
    tz,             \* offset of the browser's time zone, in ticks east of UTC
    response,       \* the rows as the follow_ups query returned them
    followUpsData,  \* the array held by fetchFollowUps (sorted in place)
    followUps,      \* React state set by setFollowUps
    leadFollowUps,  \* lead id -> follow_ups list built for that lead
    reranked,       \* result of ranking the ranked list once more
    pc,             \* position inside fetchFollowUps
    leadsWithFollowUps, \* React state set by setLeadsWithFollowUps
    table,          \* the follow_ups table of the backend, in insertion order
    fetches,        \* the fetchAllData runs of the page since it was loaded
    notifications,  \* change events the realtime channel has not yet handed over
    reloadArmed,    \* setTimeout(() => window.location.reload(), 1000) is pending
    modal,          \* which modal is open
    editingItem,    \* React state editingItem (shared by the three forms)
    submission,     \* the addOrUpdateFollowUp run of the other page version
    lastWrite,      \* the row the backend last updated, before and after
    allFollowUps,   \* other page version: React state set by setAllFollowUps
    followUps001,   \* other page version: React state set by setFollowUps
    submissions,    \* other page version: its addOrUpdateFollowUp runs under way
    user,           \* React state user: the signed-in user, or null
    followUpForm,   \* React state followUpForm
    taskForm,       \* React state taskForm
    toast,          \* React state toast
    tasks,          \* the tasks table of the backend
    taskList,       \* React state tasks
    followUpFilter, \* other page version: React state followUpFilter
    inactiveLeads,  \* the leads whose is_active is false in the leads table
    leadRows,       \* lead table version: the leads table of the backend
    leads,          \* lead table version: React state leads
    filteredLeads,  \* lead table version: React state filteredLeads
    selectedLeads,  \* lead table version: React state selectedLeads
    currentPage,    \* lead table version: React state currentPage
    filters,        \* lead table version: React state filters
    sortConfig,     \* lead table version: React state sortConfig
    leadsFetches,   \* lead table version: fetchLeads calls not yet answered
    leadsEvents,    \* lead table version: change events not yet handed over
    taskToggles,    \* task id -> calls of toggleTaskComplete that succeeded so far
    channels,       \* table -> realtime subscriptions of the page that are active
    mounted         \* the page component is mounted

\* state of the ranking walk-through of fetchFollowUps
rankVars == <<response, followUpsData, leadFollowUps, reranked, pc>>

\* backend and page state outside the ranking
pageVars == <<table, fetches, notifications, reloadArmed, modal, editingItem,
              submission, lastWrite, allFollowUps, followUps001>>

\* state of the parts of the pages that are followed on their own
formVars == <<followUpForm, taskForm, toast>>
taskVars == <<tasks, taskList>>
filterVars == <<followUpFilter, inactiveLeads>>
leadTableVars == <<leadRows, leads, filteredLeads, selectedLeads, currentPage,
                   filters, sortConfig, leadsFetches, leadsEvents>>
sessionVars == <<taskToggles, channels, mounted>>
auxVars == <<submissions, user, formVars, taskVars, filterVars, leadTableVars,
             sessionVars>>

vars == <<now, tz, followUps, leadsWithFollowUps, rankVars, pageVars, auxVars>>

(***************************************************************************)
(* Bounds and domains                                                      *)
(***************************************************************************)
\* longest query answer
MaxLen == 3
\* days of the window the dates and the clock are taken from
NumDays == 3
\* longest query answer of SpecUnparseable
MaxBadLen == 6
\* ticks per calendar day (a tick is 6 hours)
DayLen == 4
\* most rows of a table of the page model
MaxRows == 2

\* browser zones: 6 hours west of UTC, UTC, 6 hours east

TzOffsets == {-1, 0, 1}
Leads == {"L1", "L2"}
Days == 1..NumDays

\* null / absent values of the page state
NoItem == [table |-> "none", id |-> "none"]
NoSubmission == [stage |-> "none"]
NoWrite == [op |-> "none"]
NoToast == [type |-> "none"]
\* { lead_id: '', follow_up_date: '', remarks: '' } and
\* { title: '', description: '', due_date: '' }
EmptyFollowUpForm == [lead_id |-> "", follow_up_date |-> [kind |-> "bad", v |-> 0],
                      remarks |-> ""]
EmptyTaskForm == [title |-> "", due_date |-> [kind |-> "bad", v |-> 0]]

\* setUser(null), and the user of the session
NoUser == "none"
SessionUser == "u1"

\* concurrent runs of one handler that are followed
Runs == {1, 2}

DateString(k, v) == [kind |-> k, v |-> v]
BadString == DateString("bad", 0)
DateStrings ==
    {DateString("date", d) : d \in Days}
        \cup {DateString("ts", d * DayLen + 1) : d \in Days}
        \cup {BadString}

(***************************************************************************)
(* JavaScript numbers and Date objects                                     *)
(***************************************************************************)
Num(n) == [nan |-> FALSE, n |-> n]
NaN == [nan |-> TRUE, n |-> 0]

\* x - y
Minus(x, y) == IF x.nan \/ y.nan THEN NaN ELSE Num(x.n - y.n)
\* x === y on numbers: NaN equals nothing
StrictEq(x, y) == ~x.nan /\ ~y.nan /\ x.n = y.n
\* x > y: false as soon as one side is NaN
Greater(x, y) == ~x.nan /\ ~y.nan /\ x.n > y.n

\* new Date(string).getTime(): a date-only string is UTC midnight of that day
ParseDate(s) ==
    CASE s.kind = "date" -> Num(s.v * DayLen)
      [] s.kind = "ts" -> Num(s.v)
      [] OTHER -> NaN

\* getFullYear/getMonth/getDate: the calendar day in the browser's zone
LocalDay(t, zone) == (t.n + zone) \div DayLen

\* new Date(d.getFullYear(), d.getMonth(), d.getDate()).getTime():
\* local midnight of d's local calendar day
DateOnly(t, zone) ==
    IF t.nan THEN NaN ELSE Num(LocalDay(t, zone) * DayLen - zone)

(***************************************************************************)
(* The two comparators of fetchFollowUps.  clock is what new Date() gives  *)
(* inside the callback, zone the browser's offset.                         *)
(***************************************************************************)
\* CompareFollowUps with the signs of the today test exchanged
CompareFollowUps_todayLast(a, b, clock, zone) ==
    LET dateA == ParseDate(a.follow_up_date)
        dateB == ParseDate(b.follow_up_date)
        todayStart == DateOnly(Num(clock), zone)
        dateAOnly == DateOnly(dateA, zone)
        dateBOnly == DateOnly(dateB, zone)
        isAToday == StrictEq(dateAOnly, todayStart)
        isBToday == StrictEq(dateBOnly, todayStart)
        isAFuture == Greater(dateAOnly, todayStart)
        isBFuture == Greater(dateBOnly, todayStart)
    IN  IF isAToday /\ isBToday THEN Minus(dateA, dateB)
        ELSE IF isAToday /\ ~isBToday THEN Num(1)
        ELSE IF ~isAToday /\ isBToday THEN Num(-1)
        ELSE IF isAFuture /\ isBFuture THEN Minus(dateA, dateB)
        ELSE IF isAFuture /\ ~isBFuture THEN Num(-1)
        ELSE IF ~isAFuture /\ isBFuture THEN Num(1)
        ELSE Minus(dateB, dateA)

\* CompareFollowUps with the operands of the upcoming difference exchanged
CompareFollowUps_latestUpcomingFirst(a, b, clock, zone) ==
    LET dateA == ParseDate(a.follow_up_date)
        dateB == ParseDate(b.follow_up_date)
        todayStart == DateOnly(Num(clock), zone)
        dateAOnly == DateOnly(dateA, zone)
        dateBOnly == DateOnly(dateB, zone)
        isAToday == StrictEq(dateAOnly, todayStart)
        isBToday == StrictEq(dateBOnly, todayStart)
        isAFuture == Greater(dateAOnly, todayStart)
        isBFuture == Greater(dateBOnly, todayStart)
    IN  IF isAToday /\ isBToday THEN Minus(dateA, dateB)
        ELSE IF isAToday /\ ~isBToday THEN Num(-1)
        ELSE IF ~isAToday /\ isBToday THEN Num(1)
        ELSE IF isAFuture /\ isBFuture THEN Minus(dateB, dateA)
        ELSE IF isAFuture /\ ~isBFuture THEN Num(-1)
        ELSE IF ~isAFuture /\ isBFuture THEN Num(1)
        ELSE Minus(dateB, dateA)

\* CompareFollowUps answering -1 for any two follow-ups of today
CompareFollowUps_tieBefore(a, b, clock, zone) ==
    LET dateA == ParseDate(a.follow_up_date)
        dateB == ParseDate(b.follow_up_date)
        todayStart == DateOnly(Num(clock), zone)
        dateAOnly == DateOnly(dateA, zone)
        dateBOnly == DateOnly(dateB, zone)
        isAToday == StrictEq(dateAOnly, todayStart)
        isBToday == StrictEq(dateBOnly, todayStart)
        isAFuture == Greater(dateAOnly, todayStart)
        isBFuture == Greater(dateBOnly, todayStart)
    IN  IF isAToday /\ isBToday THEN Num(-1)
        ELSE IF isAToday /\ ~isBToday THEN Num(-1)
        ELSE IF ~isAToday /\ isBToday THEN Num(1)
        ELSE IF isAFuture /\ isBFuture THEN Minus(dateA, dateB)
        ELSE IF isAFuture /\ ~isBFuture THEN Num(-1)
        ELSE IF ~isAFuture /\ isBFuture THEN Num(1)
        ELSE Minus(dateB, dateA)

\* CompareLeadFollowUps with the signs of the future test exchanged
CompareLeadFollowUps_pastFirst(a, b, clock, zone) ==
    LET dateA == ParseDate(a.follow_up_date)
        dateB == ParseDate(b.follow_up_date)
        todayStart == DateOnly(Num(clock), zone)
        dateAOnly == DateOnly(dateA, zone)
        dateBOnly == DateOnly(dateB, zone)
        isAToday == StrictEq(dateAOnly, todayStart)
        isBToday == StrictEq(dateBOnly, todayStart)
        isAFuture == Greater(dateAOnly, todayStart)
        isBFuture == Greater(dateBOnly, todayStart)
    IN  IF isAToday /\ ~isBToday THEN Num(-1)
        ELSE IF ~isAToday /\ isBToday THEN Num(1)
        ELSE IF isAFuture /\ ~isBFuture THEN Num(1)
        ELSE IF ~isAFuture /\ isBFuture THEN Num(-1)
        ELSE IF isAFuture /\ isBFuture THEN Minus(dateA, dateB)
        ELSE Minus(dateB, dateA)

\* comparator of the global pending list
CompareFollowUps(a, b, clock, zone) ==
    LET dateA == ParseDate(a.follow_up_date)
        dateB == ParseDate(b.follow_up_date)
        todayStart == DateOnly(Num(clock), zone)
        dateAOnly == DateOnly(dateA, zone)
        dateBOnly == DateOnly(dateB, zone)
        isAToday == StrictEq(dateAOnly, todayStart)
        isBToday == StrictEq(dateBOnly, todayStart)
        isAFuture == Greater(dateAOnly, todayStart)
        isBFuture == Greater(dateBOnly, todayStart)
    IN  IF isAToday /\ isBToday THEN Minus(dateA, dateB)
        ELSE IF isAToday /\ ~isBToday THEN Num(-1)
        ELSE IF ~isAToday /\ isBToday THEN Num(1)
        ELSE IF isAFuture /\ isBFuture THEN Minus(dateA, dateB)
        ELSE IF isAFuture /\ ~isBFuture THEN Num(-1)
        ELSE IF ~isAFuture /\ isBFuture THEN Num(1)
        ELSE Minus(dateB, dateA)

\* comparator of one lead's follow_ups list
CompareLeadFollowUps(a, b, clock, zone) ==
    LET dateA == ParseDate(a.follow_up_date)
        dateB == ParseDate(b.follow_up_date)
        todayStart == DateOnly(Num(clock), zone)
        dateAOnly == DateOnly(dateA, zone)
        dateBOnly == DateOnly(dateB, zone)
        isAToday == StrictEq(dateAOnly, todayStart)
        isBToday == StrictEq(dateBOnly, todayStart)
        isAFuture == Greater(dateAOnly, todayStart)
        isBFuture == Greater(dateBOnly, todayStart)
    IN  IF isAToday /\ ~isBToday THEN Num(-1)
        ELSE IF ~isAToday /\ isBToday THEN Num(1)
        ELSE IF isAFuture /\ ~isBFuture THEN Num(-1)
        ELSE IF ~isAFuture /\ isBFuture THEN Num(1)
        ELSE IF isAFuture /\ isBFuture THEN Minus(dateA, dateB)
        ELSE Minus(dateB, dateA)

(***************************************************************************)
(* Array.prototype.sort as the browser engine runs it on a short array     *)
(* (fewer than 64 elements): the leading run is found and, when strictly   *)
(* descending, reversed; every later element is placed by binary           *)
(* insertion.  cmp maps a pair of elements to the comparator's result; a   *)
(* NaN result counts as 0.                                                 *)
(***************************************************************************)
SortCompare(cmp, x, y) == IF cmp[<<x, y>>].nan THEN 0 ELSE cmp[<<x, y>>].n

Reverse(s) == [i \in 1..Len(s) |-> s[Len(s) + 1 - i]]

RECURSIVE RunLength(_, _, _, _)
\* length of the run that starts at arr[1]; idx is the next index to look at
RunLength(arr, cmp, isDescending, idx) ==
    IF idx > Len(arr) THEN idx - 1
    ELSE LET order == SortCompare(cmp, arr[idx], arr[idx - 1])
         IN  IF isDescending /\ order >= 0 THEN idx - 1
             ELSE IF ~isDescending /\ order < 0 THEN idx - 1
             ELSE RunLength(arr, cmp, isDescending, idx + 1)

RECURSIVE BinarySearch(_, _, _, _, _)
\* the index (1-based) at which pivot is inserted into arr[left..right-1]
BinarySearch(arr, cmp, pivot, left, right) ==
    IF left >= right THEN left
    ELSE LET mid == left + ((right - left) \div 2)
         IN  IF SortCompare(cmp, pivot, arr[mid]) < 0
             THEN BinarySearch(arr, cmp, pivot, left, mid)
             ELSE BinarySearch(arr, cmp, pivot, mid + 1, right)

\* arr with arr[start] moved to position left (left <= start)
InsertAt(arr, start, left) ==
    [i \in 1..Len(arr) |->
        IF i < left \/ i > start THEN arr[i]
        ELSE IF i = left THEN arr[start]
        ELSE arr[i - 1]]

RECURSIVE BinaryInsertionSort(_, _, _)
\* arr[1..start-1] is the sorted prefix; places arr[start..]
BinaryInsertionSort(arr, cmp, start) ==
    IF start > Len(arr) THEN arr
    ELSE BinaryInsertionSort(
            InsertAt(arr, start, BinarySearch(arr, cmp, arr[start], 1, start)),
            cmp, start + 1)

CountAndMakeRun(arr, cmp) ==
    LET isDescending == SortCompare(cmp, arr[2], arr[1]) < 0
        runLength == RunLength(arr, cmp, isDescending, 3)
        run == SubSeq(arr, 1, runLength)
    IN  [runLength |-> runLength,
         arr |-> IF isDescending
                 THEN Reverse(run) \o SubSeq(arr, runLength + 1, Len(arr))
                 ELSE arr]

ArraySort(arr, cmp) ==
    IF Len(arr) < 2 THEN arr
    ELSE LET r == CountAndMakeRun(arr, cmp)
         IN  BinaryInsertionSort(r.arr, cmp, r.runLength + 1)

Range(s) == {s[i] : i \in DOMAIN s}

\* the comparator callbacks as the sort sees them for the elements of arr
FollowUpsComparator(arr, clock, zone) ==
    [p \in Range(arr) \X Range(arr) |-> CompareFollowUps(p[1], p[2], clock, zone)]

LeadComparator(arr, clock, zone) ==
    [p \in Range(arr) \X Range(arr) |-> CompareLeadFollowUps(p[1], p[2], clock, zone)]

\* SortFollowUpsData that first filters out the rows whose date does not parse
SortFollowUpsData_dropUnparseable(arr, clock, zone) ==
    LET kept == SelectSeq(arr, LAMBDA f : ~ParseDate(f.follow_up_date).nan)
    IN  ArraySort(kept, [p \in Range(kept) \X Range(kept) |->
                            CompareFollowUps(p[1], p[2], clock, zone)])

\* followUpsData.sort((a, b) => ...)
SortFollowUpsData(arr, clock, zone) ==
    ArraySort(arr, FollowUpsComparator(arr, clock, zone))

\* followUpsData.filter(f => f.lead_id === lead.id).sort((a, b) => ...)
LeadFollowUpsOf(arr, lead, clock, zone) ==
    LET mine == SelectSeq(arr, LAMBDA f : f.lead_id = lead)
    IN  ArraySort(mine, LeadComparator(mine, clock, zone))

(***************************************************************************)
(* The sort of the leads (leadsWithFollowUpsData.sort): a lead is an       *)
(* [id, follow_ups] record.  some/find walk follow_ups from the front.     *)
(***************************************************************************)
\* follow_ups.some(f => followUpDateOnly.getTime() === todayStart.getTime())
HasTodayFollowUp(follow_ups, clock, zone) ==
    \E i \in DOMAIN follow_ups :
        StrictEq(DateOnly(ParseDate(follow_ups[i].follow_up_date), zone),
                 DateOnly(Num(clock), zone))

\* follow_ups.some(f => followUpDateOnly > todayStart)
HasUpcomingFollowUp(follow_ups, clock, zone) ==
    \E i \in DOMAIN follow_ups :
        Greater(DateOnly(ParseDate(follow_ups[i].follow_up_date), zone),
                DateOnly(Num(clock), zone))

\* new Date(follow_ups.find(isToday)?.follow_up_date || 0).getTime()
NextTodayTime(follow_ups, clock, zone) ==
    LET hits == {i \in DOMAIN follow_ups :
                    StrictEq(DateOnly(ParseDate(follow_ups[i].follow_up_date), zone),
                             DateOnly(Num(clock), zone))}
    IN  IF hits = {} THEN Num(0)
        ELSE ParseDate(follow_ups[CHOOSE i \in hits : \A k \in hits : i <= k].follow_up_date)

\* new Date(follow_ups.find(isUpcoming)?.follow_up_date || 0).getTime()
NextUpcomingTime(follow_ups, clock, zone) ==
    LET hits == {i \in DOMAIN follow_ups :
                    Greater(DateOnly(ParseDate(follow_ups[i].follow_up_date), zone),
                            DateOnly(Num(clock), zone))}
    IN  IF hits = {} THEN Num(0)
        ELSE ParseDate(follow_ups[CHOOSE i \in hits : \A k \in hits : i <= k].follow_up_date)

\* new Date(follow_ups[0]?.follow_up_date || 0).getTime()
LatestTime(follow_ups) ==
    IF follow_ups = <<>> THEN Num(0) ELSE ParseDate(follow_ups[1].follow_up_date)

CompareLeads(a, b, clock, zone) ==
    LET aHasToday == HasTodayFollowUp(a.follow_ups, clock, zone)
        bHasToday == HasTodayFollowUp(b.follow_ups, clock, zone)
        aHasUpcoming == HasUpcomingFollowUp(a.follow_ups, clock, zone)
        bHasUpcoming == HasUpcomingFollowUp(b.follow_ups, clock, zone)
    IN  IF aHasToday /\ ~bHasToday THEN Num(-1)
        ELSE IF ~aHasToday /\ bHasToday THEN Num(1)
        ELSE IF aHasToday /\ bHasToday
             THEN Minus(NextTodayTime(a.follow_ups, clock, zone),
                        NextTodayTime(b.follow_ups, clock, zone))
        ELSE IF aHasUpcoming /\ bHasUpcoming
             THEN Minus(NextUpcomingTime(a.follow_ups, clock, zone),
                        NextUpcomingTime(b.follow_ups, clock, zone))
        ELSE IF aHasUpcoming /\ ~bHasUpcoming THEN Num(-1)
        ELSE IF ~aHasUpcoming /\ bHasUpcoming THEN Num(1)
        ELSE Minus(LatestTime(b.follow_ups), LatestTime(a.follow_ups))

\* leadsData.map(lead => ({...lead, follow_ups: leadFollowUps}))
LeadsWithFollowUpsData(leadsData, arr, clock, zone) ==
    [i \in DOMAIN leadsData |->
        [id |-> leadsData[i],
         follow_ups |-> LeadFollowUpsOf(arr, leadsData[i], clock, zone)]]

\* leadsWithFollowUpsData.sort((a, b) => ...)
SortLeadsWithFollowUps(data, clock, zone) ==
    ArraySort(data, [p \in Range(data) \X Range(data) |->
                        CompareLeads(p[1], p[2], clock, zone)])

\* the orders in which the leads query (no order clause) can list the leads
LeadOrders == {s \in [1..Cardinality(Leads) -> Leads] :
                  \A i, j \in DOMAIN s : s[i] = s[j] => i = j}

(***************************************************************************)
(* State machine                                                           *)
(***************************************************************************)
FollowUp(i, lead, date) == [id |-> i, lead_id |-> lead, follow_up_date |-> date]

\* the lead a row belongs to: rows alternate between the two leads
LeadOf(i) == IF i % 2 = 1 THEN "L1" ELSE "L2"

\* every answer the query can give: rows with distinct ids, in any order of
\* their dates, of length 0..maxLen
Responses(maxLen, dates) ==
    UNION {
        {[i \in 1..n |-> FollowUp(i, LeadOf(i), d[i])] : d \in [1..n -> dates]}
        : n \in 0..maxLen}

\* the clock: one instant on each day of the window
Clocks == {d * DayLen + 1 : d \in Days}

TypeOK ==
    /\ now \in Int
    /\ tz \in TzOffsets
    /\ pc \in {"fetched", "ranked", "built", "reranked", "leads", "idle"}

\* no backend data, nothing in flight, no modal open
PageIdle ==
    /\ table = <<>>
    /\ fetches = <<>>
    /\ notifications = 0
    /\ reloadArmed = FALSE
    /\ modal = "none"
    /\ editingItem = NoItem
    /\ submission = NoSubmission
    /\ lastWrite = NoWrite
    /\ allFollowUps = <<>>
    /\ followUps001 = <<>>

\* the parts followed on their own are at rest
SubmissionsIdle == submissions = [r \in Runs |-> NoSubmission]

\* handleUserSession has set the user
SignedIn == user = SessionUser

\* forms empty, no toast shown
FormsIdle ==
    /\ followUpForm = EmptyFollowUpForm
    /\ taskForm = EmptyTaskForm
    /\ toast = NoToast

\* no tasks
TasksIdle == tasks = <<>> /\ taskList = <<>>

\* filter 'all', every lead active
FilterIdle == followUpFilter = "all" /\ inactiveLeads = {}

\* the lead table version is not open
LeadTableIdle ==
    /\ leadRows = <<>>
    /\ leads = <<>>
    /\ filteredLeads = <<>>
    /\ selectedLeads = {}
    /\ currentPage = 1
    /\ filters = [status |-> "all"]
    /\ sortConfig = [key |-> "created_at", direction |-> "desc"]
    /\ leadsFetches = 0
    /\ leadsEvents = 0

\* the tables setupRealtimeSubscriptions subscribes to
Tables == {"leads", "follow_ups", "tasks"}

\* the page is mounted and has subscribed once; no task was toggled
SessionIdle ==
    /\ taskToggles = [id \in 1..MaxRows |-> 0]
    /\ channels = [t \in Tables |-> 1]
    /\ mounted = TRUE

AuxIdle ==
    /\ SubmissionsIdle /\ SignedIn /\ FormsIdle /\ TasksIdle /\ FilterIdle
    /\ LeadTableIdle /\ SessionIdle

InitWith(resp) ==
    /\ response = resp
    /\ followUpsData = resp
    /\ followUps = <<>>
    /\ leadFollowUps = [l \in Leads |-> <<>>]
    /\ reranked = <<>>
    /\ pc = "fetched"
    /\ leadsWithFollowUps = <<>>
    /\ PageIdle
    /\ AuxIdle

Init ==
    /\ now \in Clocks
    /\ tz \in TzOffsets
    /\ \E resp \in Responses(MaxLen, DateStrings) : InitWith(resp)

\* if (followUpsData) { const sortedFollowUps = followUpsData.sort(...);
\* setFollowUps(sortedFollowUps);
SortFollowUps ==
    /\ pc = "fetched"
    /\ followUpsData' = SortFollowUpsData(followUpsData, now, tz)
    /\ followUps' = followUpsData'
    /\ pc' = "ranked"
    /\ UNCHANGED <<auxVars, now, tz, response, leadFollowUps, reranked, leadsWithFollowUps, pageVars>>

\* leadsData.map(lead => ({...lead, follow_ups: leadFollowUps}))
BuildLeadFollowUps ==
    /\ pc = "ranked"
    /\ leadFollowUps' = [l \in Leads |-> LeadFollowUpsOf(followUpsData, l, now, tz)]
    /\ pc' = "built"
    /\ UNCHANGED <<auxVars, now, tz, response, followUpsData, followUps, reranked, leadsWithFollowUps,
                   pageVars>>

\* the ranked list handed to the same sort once more
Rerank ==
    /\ pc = "built"
    /\ reranked' = SortFollowUpsData(followUps, now, tz)
    /\ pc' = "reranked"
    /\ UNCHANGED <<auxVars, now, tz, response, followUpsData, followUps, leadFollowUps,
                   leadsWithFollowUps, pageVars>>

\* leadsWithFollowUpsData.sort(...); setLeadsWithFollowUps(...): the leads in
\* the order the leads query listed them, each with the list built for it
SortLeads ==
    /\ pc = "built"
    /\ \E leadsData \in LeadOrders :
        leadsWithFollowUps' = SortLeadsWithFollowUps(
            [i \in DOMAIN leadsData |->
                [id |-> leadsData[i], follow_ups |-> leadFollowUps[leadsData[i]]]],
            now, tz)
    /\ pc' = "leads"
    /\ UNCHANGED <<auxVars, now, tz, response, followUpsData, followUps, leadFollowUps, reranked,
                   pageVars>>

Next == SortFollowUps \/ BuildLeadFollowUps \/ Rerank

Spec == Init /\ [][Next]_vars

\* fetchFollowUps up to setLeadsWithFollowUps
NextLeads == SortFollowUps \/ BuildLeadFollowUps \/ SortLeads

SpecLeads == Init /\ [][NextLeads]_vars

(***************************************************************************)
(* The scenario of the specification's testable properties: today is       *)
(* 2024-06-10 and the follow-ups are dated 06-12, 06-10, 06-08, 06-09      *)
(* (date-only strings), handed over in every order.  Days are numbered so  *)
(* that 2024-06-08 is day 1.                                               *)
(***************************************************************************)
ScenarioDates == <<5, 3, 1, 2>>
ScenarioToday == ScenarioDates[2]
ScenarioExpected == <<3, 5, 2, 1>>

Permutations4 == {p \in [1..4 -> 1..4] : \A i, j \in 1..4 : p[i] = p[j] => i = j}

InitScenario ==
    /\ tz \in TzOffsets
    /\ now \in {t \in 0..((ScenarioToday + 2) * DayLen) :
                    LocalDay(Num(t), tz) = ScenarioToday}
    /\ \E p \in Permutations4 :
        InitWith([i \in 1..4 |->
            FollowUp(i, LeadOf(i), DateString("date", ScenarioDates[p[i]]))])

SpecScenario == InitScenario /\ [][Next]_vars

(***************************************************************************)
(* Longer answers over few dates, some of them unparseable: two past days, *)
(* today, and a string Date cannot parse; UTC browser.                     *)
(***************************************************************************)
UnparseableDates ==
    {DateString("date", 1), DateString("date", 2), DateString("date", 3), BadString}

InitUnparseable ==
    /\ tz = 0
    /\ now = 3 * DayLen + 1
    /\ \E resp \in Responses(MaxBadLen, UnparseableDates) :
        Len(resp) >= MaxBadLen - 1 /\ InitWith(resp)

SpecUnparseable == InitUnparseable /\ [][Next]_vars

(***************************************************************************)
(* The clock during the sort.  The comparator reads new Date() in every    *)
(* call, so when the clock advances while followUpsData.sort(...) runs,    *)
(* the calls made so far have used the old instant and the later ones use  *)
(* the new one.  The advance falls between two insertions: elements up to  *)
(* index switch - 1 are placed under the old clock, the rest under the new *)
(* one.                                                                    *)
(***************************************************************************)
RECURSIVE BinaryInsertionSortTo(_, _, _, _)
\* BinaryInsertionSort that stops before placing arr[stop]
BinaryInsertionSortTo(arr, cmp, start, stop) ==
    IF start > Len(arr) \/ start >= stop THEN arr
    ELSE BinaryInsertionSortTo(
            InsertAt(arr, start, BinarySearch(arr, cmp, arr[start], 1, start)),
            cmp, start + 1, stop)

ArraySortOverTime(arr, cmpBefore, cmpAfter, switch) ==
    IF Len(arr) < 2 THEN arr
    ELSE LET r == CountAndMakeRun(arr, cmpBefore)
             first == r.runLength + 1
             placed == BinaryInsertionSortTo(r.arr, cmpBefore, first, switch)
         IN  BinaryInsertionSort(placed, cmpAfter,
                                 IF switch > first THEN switch ELSE first)

\* followUpsData.sort(...) with the clock moving from now to a later instant
\* while it runs
SortFollowUpsOverTime ==
    /\ pc = "fetched"
    /\ \E later \in Clocks : \E switch \in 1..(Len(followUpsData) + 1) :
        /\ later >= now
        /\ followUpsData' = ArraySortOverTime(followUpsData,
                                FollowUpsComparator(followUpsData, now, tz),
                                FollowUpsComparator(followUpsData, later, tz),
                                switch)
        /\ now' = later
    /\ followUps' = followUpsData'
    /\ pc' = "ranked"
    /\ UNCHANGED <<auxVars, tz, response, leadFollowUps, reranked, leadsWithFollowUps, pageVars>>

NextOverTime == SortFollowUpsOverTime \/ BuildLeadFollowUps \/ Rerank

SpecOverTime == Init /\ [][NextOverTime]_vars

(***************************************************************************)
(* Rendering of the follow-ups tab: each lead's follow_ups are split by    *)
(* comparing the parsed date, as an instant, with new Date() at render     *)
(* time; the same test puts the 'Overdue' / ' (past)' marker on a row.     *)
(***************************************************************************)
\* x < y and x >= y of JavaScript numbers: false when either side is NaN
Less(x, y) == ~x.nan /\ ~y.nan /\ x.n < y.n
GreaterEq(x, y) == ~x.nan /\ ~y.nan /\ x.n >= y.n

\* follow_ups.filter(f => new Date(f.follow_up_date) >= new Date())
UpcomingFollowUps(follow_ups, clock) ==
    SelectSeq(follow_ups, LAMBDA f : GreaterEq(ParseDate(f.follow_up_date), Num(clock)))

\* follow_ups.filter(f => new Date(f.follow_up_date) < new Date())
PastFollowUps(follow_ups, clock) ==
    SelectSeq(follow_ups, LAMBDA f : Less(ParseDate(f.follow_up_date), Num(clock)))

\* new Date(nextFollowUp.follow_up_date) < new Date() && 'Overdue', and the
\* same test with ' (past)' on the other follow-ups of the card
OverdueMarker(f, clock) == Less(ParseDate(f.follow_up_date), Num(clock))

(***************************************************************************)
(* The page and its backend.  table is the follow_ups table.  The page     *)
(* (page.tsx) loads, fetches, and re-fetches whenever its realtime channel *)
(* reports a change; its own writes arm a reload of the page one second    *)
(* later.  A second session of the same user runs the other version of the *)
(* page (part_001), whose addOrUpdateFollowUp first closes the lead's      *)
(* pending follow-ups and then inserts the new one.  Of fetchAllData only  *)
(* fetchFollowUps is followed; fetchLeads and fetchTasks run the same way. *)
(* The backend answers without error.                                      *)
(***************************************************************************)
\* fetchAllData runs of one page load; a write is followed only while the
\* page can still start a run for its notification
MaxFetches == 2

\* followUpForm as submitted: a follow-up for either lead, dated yesterday
\* (refused by the date check) or today
FormDates == {DateString("date", d) : d \in {1, 2}}
FollowUpForms == [lead_id : Leads, follow_up_date : FormDates, remarks : {"call back"}]

\* new Date().toISOString().split('T')[0]: the UTC date of the clock
getTodayDate(clock) == DateString("date", clock \div DayLen)

\* new Date(followUpForm.follow_up_date) < new Date(getTodayDate())
DateInPast(form, clock) ==
    Less(ParseDate(form.follow_up_date), ParseDate(getTodayDate(clock)))

\* the row inserted for a form (completed_at 0: null)
NewRow(tbl, form) ==
    [id |-> Len(tbl) + 1, lead_id |-> form.lead_id,
     follow_up_date |-> form.follow_up_date, remarks |-> form.remarks,
     completed |-> FALSE, completed_at |-> 0]

\* the update written as a toggle of the flag
MarkCompleted_toggle(tbl, id, clock) ==
    [i \in DOMAIN tbl |->
        IF tbl[i].id = id
        THEN [tbl[i] EXCEPT !.completed = ~tbl[i].completed, !.completed_at = clock]
        ELSE tbl[i]]

\* .update({completed: true, completed_at: new Date().toISOString()}).eq('id', id)
MarkCompleted(tbl, id, clock) ==
    [i \in DOMAIN tbl |->
        IF tbl[i].id = id
        THEN [tbl[i] EXCEPT !.completed = TRUE, !.completed_at = clock]
        ELSE tbl[i]]

\* .update(followUpForm).eq('id', editingItem.id): ids are uuids, so an item of
\* another table matches no row
UpdateFollowUpForm(tbl, item, form) ==
    [i \in DOMAIN tbl |->
        IF item.table = "follow_ups" /\ item.id = tbl[i].id
        THEN [tbl[i] EXCEPT !.lead_id = form.lead_id,
                            !.follow_up_date = form.follow_up_date,
                            !.remarks = form.remarks]
        ELSE tbl[i]]

\* the update the backend executed last: whether the row it hit was completed
\* before
WriteOf(tbl, id) ==
    IF \E i \in DOMAIN tbl : tbl[i].id = id
    THEN [op |-> "update",
          wasCompleted |-> \E i \in DOMAIN tbl : tbl[i].id = id /\ tbl[i].completed]
    ELSE NoWrite

\* .order('follow_up_date', { ascending: true })
OrderByFollowUpDate(rows) ==
    ArraySort(rows, [p \in Range(rows) \X Range(rows) |->
                        Minus(ParseDate(p[1].follow_up_date),
                              ParseDate(p[2].follow_up_date))])

\* the query without its completed filter
PendingFollowUpsQuery_unfiltered(tbl) == OrderByFollowUpDate(tbl)

\* from('follow_ups').select(...).eq('completed', false).order('follow_up_date')
PendingFollowUpsQuery(tbl) ==
    OrderByFollowUpDate(SelectSeq(tbl, LAMBDA r : ~r.completed))

\* other version: from('follow_ups').select(...).order('follow_up_date')
AllFollowUpsQuery(tbl) == OrderByFollowUpDate(tbl)

\* other version: allFollowUpsData.filter(f => !f.completed)
PendingOf(allFollowUpsData) == SelectSeq(allFollowUpsData, LAMBDA f : ~f.completed)

\* other version: select('*').eq('lead_id', lead).eq('completed', false)
ExistingFollowUpsQuery(tbl, lead) ==
    SelectSeq(tbl, LAMBDA r : r.lead_id = lead /\ ~r.completed)

\* [...upcomingFollowUps, ...pastFollowUps] of a card of the follow-ups tab
SortedFollowUps(follow_ups, clock) ==
    LET upcoming == UpcomingFollowUps(follow_ups, clock)
        past == PastFollowUps(follow_ups, clock)
    IN  ArraySort(upcoming, [p \in Range(upcoming) \X Range(upcoming) |->
                                Minus(ParseDate(p[1].follow_up_date),
                                      ParseDate(p[2].follow_up_date))])
        \o ArraySort(past, [p \in Range(past) \X Range(past) |->
                                Minus(ParseDate(p[2].follow_up_date),
                                      ParseDate(p[1].follow_up_date))])

\* a fetchAllData run whose follow_ups query is on its way
NewFetch == [stage |-> "sent", rows |-> <<>>]

\* the clock of the page model: an instant on day 2, UTC browser
PageClock == 2 * DayLen + 1

\* what the backend holds when the page is loaded: one pending follow-up
\* from the day before
InitialTables ==
    {<<[id |-> 1, lead_id |-> "L1", follow_up_date |-> DateString("date", 1),
        remarks |-> "", completed |-> FALSE, completed_at |-> 0]>>}

InitPage ==
    /\ now = PageClock
    /\ tz = 0
    /\ followUps = <<>>
    /\ leadsWithFollowUps = <<>>
    /\ response = <<>>
    /\ followUpsData = <<>>
    /\ leadFollowUps = [l \in Leads |-> <<>>]
    /\ reranked = <<>>
    /\ pc = "idle"
    /\ table \in InitialTables
    /\ fetches = <<NewFetch>>
    /\ notifications = 0
    /\ reloadArmed = FALSE
    /\ modal = "none"
    /\ editingItem = NoItem
    /\ submission = NoSubmission
    /\ lastWrite = NoWrite
    /\ allFollowUps = AllFollowUpsQuery(table)
    /\ followUps001 = PendingOf(allFollowUps)
    /\ AuxIdle

\* the channel callback: fetchAllData()
StartOnNotification ==
    /\ notifications > 0
    /\ Len(fetches) < MaxFetches
    /\ notifications' = notifications - 1
    /\ fetches' = Append(fetches, NewFetch)
    /\ UNCHANGED <<auxVars, now, tz, followUps, leadsWithFollowUps, rankVars, table, reloadArmed,
                   modal, editingItem, submission, lastWrite, allFollowUps, followUps001>>

\* the backend executes the follow_ups query of run i
AnswerFollowUps(i) ==
    /\ i \in DOMAIN fetches
    /\ fetches[i].stage = "sent"
    /\ fetches' = [fetches EXCEPT ![i] =
                      [stage |-> "answered", rows |-> PendingFollowUpsQuery(table)]]
    /\ UNCHANGED <<auxVars, now, tz, followUps, leadsWithFollowUps, rankVars, table, notifications,
                   reloadArmed, modal, editingItem, submission, lastWrite, allFollowUps,
                   followUps001>>

\* run i with followUps left as the query listed them
SetFollowUps_unsorted(i) ==
    /\ i \in DOMAIN fetches
    /\ fetches[i].stage = "answered"
    /\ followUps' = fetches[i].rows
    /\ fetches' = [fetches EXCEPT ![i] = [stage |-> "leads", rows |-> followUps']]
    /\ UNCHANGED <<auxVars, now, tz, leadsWithFollowUps, rankVars, table, notifications,
                   reloadArmed, modal, editingItem, submission, lastWrite, allFollowUps,
                   followUps001>>

\* run i resumes with the answer: followUpsData.sort(...), setFollowUps, and
\* the leads query goes out
SetFollowUps(i) ==
    /\ i \in DOMAIN fetches
    /\ fetches[i].stage = "answered"
    /\ followUps' = SortFollowUpsData(fetches[i].rows, now, tz)
    /\ fetches' = [fetches EXCEPT ![i] = [stage |-> "leads", rows |-> followUps']]
    /\ UNCHANGED <<auxVars, now, tz, leadsWithFollowUps, rankVars, table, notifications,
                   reloadArmed, modal, editingItem, submission, lastWrite, allFollowUps,
                   followUps001>>

\* run i resumes with the leads: map, sort, setLeadsWithFollowUps
SetLeadsWithFollowUps(i) ==
    /\ i \in DOMAIN fetches
    /\ fetches[i].stage = "leads"
    /\ \E leadsData \in LeadOrders :
        leadsWithFollowUps' = SortLeadsWithFollowUps(
            LeadsWithFollowUpsData(leadsData, fetches[i].rows, now, tz), now, tz)
    /\ fetches' = [fetches EXCEPT ![i].stage = "done"]
    /\ UNCHANGED <<auxVars, now, tz, followUps, rankVars, table, notifications, reloadArmed,
                   modal, editingItem, submission, lastWrite, allFollowUps, followUps001>>

\* the 'Complete' button of a card: completeFollowUp(nextFollowUp)
CompleteFollowUp ==
    /\ modal = "none"
    /\ Len(fetches) + notifications < MaxFetches
    /\ \E k \in DOMAIN leadsWithFollowUps :
        LET sortedFollowUps == SortedFollowUps(leadsWithFollowUps[k].follow_ups, now)
        IN  /\ sortedFollowUps # <<>>
            /\ table' = MarkCompleted(table, sortedFollowUps[1].id, now)
            /\ lastWrite' = WriteOf(table, sortedFollowUps[1].id)
    /\ notifications' = notifications + 1
    /\ reloadArmed' = TRUE
    /\ UNCHANGED <<auxVars, now, tz, followUps, leadsWithFollowUps, rankVars, fetches, modal,
                   editingItem, submission, allFollowUps, followUps001>>

\* '+ Add Follow-up': setIsFollowUpModalOpen(true)
OpenFollowUpModal ==
    /\ modal = "none"
    /\ modal' = "followUp"
    /\ UNCHANGED <<auxVars, now, tz, followUps, leadsWithFollowUps, rankVars, table, fetches,
                   notifications, reloadArmed, editingItem, submission, lastWrite,
                   allFollowUps, followUps001>>

\* editLead(lead): setEditingItem(lead); setIsLeadModalOpen(true)
editLead(lead) ==
    /\ modal = "none"
    /\ editingItem' = [table |-> "leads", id |-> lead]
    /\ modal' = "lead"
    /\ UNCHANGED <<auxVars, now, tz, followUps, leadsWithFollowUps, rankVars, table, fetches,
                   notifications, reloadArmed, submission, lastWrite, allFollowUps,
                   followUps001>>

\* Cancel of the lead modal: setEditingItem(null); setIsLeadModalOpen(false)
resetLeadForm ==
    /\ modal = "lead"
    /\ editingItem' = NoItem
    /\ modal' = "none"
    /\ UNCHANGED <<auxVars, now, tz, followUps, leadsWithFollowUps, rankVars, table, fetches,
                   notifications, reloadArmed, submission, lastWrite, allFollowUps,
                   followUps001>>

\* Cancel of the follow-up modal
resetFollowUpForm ==
    /\ modal = "followUp"
    /\ followUpForm' = EmptyFollowUpForm
    /\ editingItem' = NoItem
    /\ modal' = "none"
    /\ UNCHANGED <<submissions, user, taskForm, toast, taskVars, filterVars, leadTableVars, sessionVars, now, tz, followUps, leadsWithFollowUps, rankVars, table, fetches,
                   notifications, reloadArmed, submission, lastWrite, allFollowUps,
                   followUps001>>

\* submit of the follow-up modal with a date that passes the check; the
\* success path resets the form and arms the reload
addOrUpdateFollowUp(form) ==
    /\ modal = "followUp"
    /\ ~DateInPast(form, now)
    /\ IF editingItem.table # "none"
       THEN /\ table' = UpdateFollowUpForm(table, editingItem, form)
            /\ UNCHANGED <<lastWrite, notifications>>
       ELSE /\ Len(table) < MaxRows
            /\ Len(fetches) + notifications < MaxFetches
            /\ table' = Append(table, NewRow(table, form))
            /\ notifications' = notifications + 1
            /\ UNCHANGED lastWrite
    /\ editingItem' = NoItem
    /\ modal' = "none"
    /\ reloadArmed' = TRUE
    /\ UNCHANGED <<auxVars, now, tz, followUps, leadsWithFollowUps, rankVars, fetches, submission,
                   allFollowUps, followUps001>>

\* window.location.reload(): the page starts over, signs in from the stored
\* session and calls fetchAllData; what was in flight is gone with the old page
Reload ==
    /\ reloadArmed
    /\ reloadArmed' = FALSE
    /\ followUps' = <<>>
    /\ leadsWithFollowUps' = <<>>
    /\ fetches' = <<NewFetch>>
    /\ notifications' = 0
    /\ modal' = "none"
    /\ editingItem' = NoItem
    /\ UNCHANGED <<auxVars, now, tz, rankVars, table, submission, lastWrite, allFollowUps,
                   followUps001>>

\* other version, addOrUpdateFollowUp up to the answer of the query for the
\* lead's pending follow-ups
Submit001(form) ==
    /\ submission.stage = "none"
    /\ ~DateInPast(form, now)
    /\ submission' = [stage |-> "closing", form |-> form,
                      existing |-> ExistingFollowUpsQuery(table, form.lead_id)]
    /\ UNCHANGED <<auxVars, now, tz, followUps, leadsWithFollowUps, rankVars, table, fetches,
                   notifications, reloadArmed, modal, editingItem, lastWrite,
                   allFollowUps, followUps001>>

\* other version: one pass of the loop that marks existing follow-ups completed
CloseExisting001 ==
    /\ submission.stage = "closing"
    /\ submission.existing # <<>>
    /\ Len(fetches) + notifications < MaxFetches
    /\ table' = MarkCompleted(table, Head(submission.existing).id, now)
    /\ lastWrite' = WriteOf(table, Head(submission.existing).id)
    /\ submission' = [submission EXCEPT !.existing = Tail(submission.existing)]
    /\ notifications' = notifications + 1
    /\ UNCHANGED <<auxVars, now, tz, followUps, leadsWithFollowUps, rankVars, fetches, reloadArmed,
                   modal, editingItem, allFollowUps, followUps001>>

\* other version: the insert of the new follow-up and, when it succeeded,
\* fetchAllData(): setAllFollowUps, setFollowUps (the insert is refused when
\* the table is full)
Insert001 ==
    /\ submission.stage = "closing"
    /\ submission.existing = <<>>
    /\ IF Len(table) < MaxRows
       THEN /\ Len(fetches) + notifications < MaxFetches
            /\ table' = Append(table, NewRow(table, submission.form))
            /\ notifications' = notifications + 1
            /\ allFollowUps' = AllFollowUpsQuery(table')
            /\ followUps001' = PendingOf(allFollowUps')
       ELSE UNCHANGED <<table, notifications, allFollowUps, followUps001>>
    /\ submission' = NoSubmission
    /\ UNCHANGED <<auxVars, now, tz, followUps, leadsWithFollowUps, rankVars, fetches, reloadArmed,
                   modal, editingItem, lastWrite>>

\* the page, the backend and the writes of the second session
NextPage ==
    \/ StartOnNotification
    \/ \E i \in 1..MaxFetches : AnswerFollowUps(i)
    \/ \E i \in 1..MaxFetches : SetFollowUps(i)
    \/ \E i \in 1..MaxFetches : SetLeadsWithFollowUps(i)
    \/ CompleteFollowUp
    \/ OpenFollowUpModal
    \/ \E lead \in Leads : editLead(lead)
    \/ resetLeadForm
    \/ resetFollowUpForm
    \/ \E form \in FollowUpForms : addOrUpdateFollowUp(form)
    \/ Reload
    \/ \E form \in FollowUpForms : Submit001(form)
    \/ CloseExisting001
    \/ Insert001

SpecPage == InitPage /\ [][NextPage]_vars

\* the realtime path alone: the user completes follow-ups and leaves the
\* forms closed
NextRealtime ==
    \/ StartOnNotification
    \/ \E i \in 1..MaxFetches : AnswerFollowUps(i)
    \/ \E i \in 1..MaxFetches : SetFollowUps(i)
    \/ \E i \in 1..MaxFetches : SetLeadsWithFollowUps(i)
    \/ CompleteFollowUp
    \/ Reload
    \/ \E form \in FollowUpForms : Submit001(form)
    \/ CloseExisting001
    \/ Insert001

SpecRealtime == InitPage /\ [][NextRealtime]_vars

\* the backend answers every query it is sent, and a run that has its answer
\* resumes
FairRealtime ==
    /\ SpecRealtime
    /\ \A i \in 1..MaxFetches :
        WF_vars(AnswerFollowUps(i)) /\ WF_vars(SetFollowUps(i))

(***************************************************************************)
(* Other page version (part_001): runs of addOrUpdateFollowUp of one user  *)
(* that overlap (two tabs, or a second submit before the first one has     *)
(* returned).  The handler does not look at the result of its updates, so  *)
(* an update the backend refuses goes unnoticed; a call that throws ends   *)
(* the run in the catch clause.                                            *)
(***************************************************************************)
Outcomes == {"ok", "error", "throws"}

\* the ranking walk-through and the page are at rest
RankIdle ==
    /\ followUps = <<>>
    /\ leadsWithFollowUps = <<>>
    /\ response = <<>>
    /\ followUpsData = <<>>
    /\ leadFollowUps = [l \in Leads |-> <<>>]
    /\ reranked = <<>>
    /\ pc = "idle"

InitSubmissions ==
    /\ now = PageClock
    /\ tz = 0
    /\ RankIdle
    /\ table \in {<<>>} \cup InitialTables
    /\ fetches = <<>>
    /\ notifications = 0
    /\ reloadArmed = FALSE
    /\ modal = "none"
    /\ editingItem = NoItem
    /\ submission = NoSubmission
    /\ lastWrite = NoWrite
    /\ allFollowUps = <<>>
    /\ followUps001 = <<>>
    /\ AuxIdle

\* run r: the checks of the form and the answer of the query for the lead's
\* pending follow-ups
StartSubmission(r, form) ==
    /\ submissions[r].stage = "none"
    /\ ~DateInPast(form, now)
    /\ submissions' = [submissions EXCEPT ![r] =
            [stage |-> "closing", form |-> form,
             existing |-> ExistingFollowUpsQuery(table, form.lead_id)]]
    /\ UNCHANGED <<now, tz, followUps, leadsWithFollowUps, rankVars, pageVars, user, formVars, taskVars, filterVars, leadTableVars, sessionVars>>

\* run r: one pass of the loop over existingFollowUps
MarkExistingCompleted(r, outcome) ==
    /\ submissions[r].stage = "closing"
    /\ submissions[r].existing # <<>>
    /\ table' = IF outcome = "ok"
                THEN MarkCompleted(table, Head(submissions[r].existing).id, now)
                ELSE table
    /\ submissions' = [submissions EXCEPT ![r] =
            IF outcome = "throws"
            THEN NoSubmission
            ELSE [@ EXCEPT !.existing = Tail(@)]]
    /\ UNCHANGED <<now, tz, followUps, leadsWithFollowUps, rankVars, fetches,
                   notifications, reloadArmed, modal, editingItem, submission, lastWrite,
                   allFollowUps, followUps001, user, formVars, taskVars, filterVars, leadTableVars, sessionVars>>

\* run r: the insert of the new follow-up, which ends the run
InsertFollowUp(r, outcome) ==
    /\ submissions[r].stage = "closing"
    /\ submissions[r].existing = <<>>
    /\ table' = IF outcome = "ok" /\ Len(table) < MaxRows
                THEN Append(table, NewRow(table, submissions[r].form))
                ELSE table
    /\ submissions' = [submissions EXCEPT ![r] = NoSubmission]
    /\ UNCHANGED <<now, tz, followUps, leadsWithFollowUps, rankVars, fetches,
                   notifications, reloadArmed, modal, editingItem, submission, lastWrite,
                   allFollowUps, followUps001, user, formVars, taskVars, filterVars, leadTableVars, sessionVars>>

NextSubmissions ==
    \E r \in Runs :
        \/ \E form \in FollowUpForms : StartSubmission(r, form)
        \/ \E outcome \in Outcomes : MarkExistingCompleted(r, outcome)
        \/ \E outcome \in Outcomes : InsertFollowUp(r, outcome)

SpecSubmissions == InitSubmissions /\ [][NextSubmissions]_vars

(***************************************************************************)
(* Sign-out and sign-in.  The listener of onAuthStateChange clears the     *)
(* user and three of the collections; the effect on [user, fetchAllData]   *)
(* starts fetchAllData when a user is set.  fetchAllData runs that are     *)
(* under way are not cancelled, and the channel callbacks keep calling the *)
(* fetchAllData of the render they were created in.  Queries that reach    *)
(* the backend after the sign-out are not followed.                        *)
(***************************************************************************)
\* onAuthStateChange without a session: setUser(null); setLeads([]);
\* setFollowUps([]); setTasks([])
SignOut ==
    /\ user # NoUser
    /\ user' = NoUser
    /\ followUps' = <<>>
    /\ UNCHANGED <<now, tz, leadsWithFollowUps, rankVars, pageVars, submissions, formVars,
                   taskVars, filterVars, leadTableVars, sessionVars>>

\* most subscriptions to one table that are followed
MaxChannels == 3

\* setupRealtimeSubscriptions: supabase.channel(name)...subscribe() for each
\* table.  The client library is not part of the repository: it either makes
\* a new channel on every call (fresh) or hands back the channel of that name
\* that it still holds.
Subscribed(ch, fresh) ==
    [t \in Tables |-> IF fresh \/ ch[t] = 0 THEN ch[t] + 1 ELSE ch[t]]

\* onAuthStateChange with a session: handleUserSession sets the user, and the
\* effect calls fetchAllData() and setupRealtimeSubscriptions()
SignIn ==
    /\ user = NoUser
    /\ Len(fetches) < MaxFetches
    /\ \A t \in Tables : channels[t] < MaxChannels
    /\ user' = SessionUser
    /\ fetches' = Append(fetches, NewFetch)
    /\ \E fresh \in BOOLEAN : channels' = Subscribed(channels, fresh)
    /\ UNCHANGED <<now, tz, followUps, leadsWithFollowUps, rankVars, table, notifications,
                   reloadArmed, modal, editingItem, submission, lastWrite, allFollowUps,
                   followUps001, submissions, formVars, taskVars, filterVars, leadTableVars,
                   taskToggles, mounted>>

NextAuth ==
    \/ SignOut
    \/ SignIn
    \/ StartOnNotification
    \/ \E i \in 1..MaxFetches : SignedIn /\ AnswerFollowUps(i)
    \/ \E i \in 1..MaxFetches : SetFollowUps(i)
    \/ \E i \in 1..MaxFetches : SetLeadsWithFollowUps(i)
    \/ \E form \in FollowUpForms : Submit001(form)
    \/ CloseExisting001
    \/ Insert001

SpecAuth == InitPage /\ [][NextAuth]_vars

(***************************************************************************)
(* The follow-up form and the task form of page.tsx, followed field by     *)
(* field together with the toast.  (In SpecPage the form is an input of    *)
(* the submit and the toast is not followed.)  The fields marked required  *)
(* are filled when the form is submitted.  Of the reload only the result   *)
(* is followed: a fresh page with the tasks fetched again.                 *)
(***************************************************************************)
TaskForms == [title : {"call"}, due_date : FormDates]

\* what a call of the backend that does not throw returns: data or { error }
Results == {"ok", "error"}

\* showToast(message, type)
Toast(message, type) == [type |-> type, message |-> message]

\* new Date(taskForm.due_date) < new Date(getTodayDate())
DueDateInPast(form, clock) ==
    Less(ParseDate(form.due_date), ParseDate(getTodayDate(clock)))

\* the row inserted for a task form
NewTask(tbl, form) ==
    [id |-> Len(tbl) + 1, title |-> form.title, due_date |-> form.due_date,
     completed |-> FALSE]

\* .update({ ...taskForm, updated_at }).eq('id', editingItem.id)
UpdateTaskForm(tbl, item, form) ==
    [i \in DOMAIN tbl |->
        IF item.table = "tasks" /\ item.id = tbl[i].id
        THEN [tbl[i] EXCEPT !.title = form.title, !.due_date = form.due_date]
        ELSE tbl[i]]

\* select('*').order('due_date', { ascending: false })
TasksQuery(tbl) ==
    ArraySort(tbl, [p \in Range(tbl) \X Range(tbl) |->
                        Minus(ParseDate(p[2].due_date), ParseDate(p[1].due_date))])

InitialTasks ==
    {<<[id |-> 1, title |-> "call", due_date |-> DateString("date", 2),
        completed |-> FALSE]>>}

InitForms ==
    /\ now = PageClock
    /\ tz = 0
    /\ RankIdle
    /\ table \in InitialTables
    /\ fetches = <<>>
    /\ notifications = 0
    /\ reloadArmed = FALSE
    /\ modal = "none"
    /\ editingItem = NoItem
    /\ submission = NoSubmission
    /\ lastWrite = NoWrite
    /\ allFollowUps = <<>>
    /\ followUps001 = <<>>
    /\ SubmissionsIdle
    /\ SignedIn
    /\ FormsIdle
    /\ tasks \in InitialTasks
    /\ taskList = TasksQuery(tasks)
    /\ FilterIdle
    /\ LeadTableIdle
    /\ SessionIdle

\* '+ Add Task': setIsTaskModalOpen(true)
OpenTaskModal ==
    /\ modal = "none"
    /\ modal' = "task"
    /\ UNCHANGED <<now, tz, followUps, leadsWithFollowUps, rankVars, table, fetches,
                   notifications, reloadArmed, editingItem, submission, lastWrite,
                   allFollowUps, followUps001, auxVars>>

\* 'Edit' of the task at position i of the list
editTask(i) ==
    /\ modal = "none"
    /\ i \in DOMAIN taskList
    /\ editingItem' = [table |-> "tasks", id |-> taskList[i].id]
    /\ taskForm' = [title |-> taskList[i].title, due_date |-> taskList[i].due_date]
    /\ modal' = "task"
    /\ UNCHANGED <<now, tz, followUps, leadsWithFollowUps, rankVars, table, fetches,
                   notifications, reloadArmed, submission, lastWrite, allFollowUps,
                   followUps001, submissions, user, followUpForm, toast, taskVars, filterVars, leadTableVars, sessionVars>>

\* the onChange handlers of the follow-up form, up to the form they leave
setFollowUpForm(form) ==
    /\ modal = "followUp"
    /\ followUpForm' = form
    /\ UNCHANGED <<now, tz, followUps, leadsWithFollowUps, rankVars, pageVars,
                   submissions, user, taskForm, toast, taskVars, filterVars, leadTableVars, sessionVars>>

\* the onChange handlers of the task form
setTaskForm(form) ==
    /\ modal = "task"
    /\ taskForm' = form
    /\ UNCHANGED <<now, tz, followUps, leadsWithFollowUps, rankVars, pageVars,
                   submissions, user, followUpForm, toast, taskVars, filterVars, leadTableVars, sessionVars>>

\* Cancel of the task modal
resetTaskForm ==
    /\ modal = "task"
    /\ taskForm' = EmptyTaskForm
    /\ editingItem' = NoItem
    /\ modal' = "none"
    /\ UNCHANGED <<now, tz, followUps, leadsWithFollowUps, rankVars, table, fetches,
                   notifications, reloadArmed, submission, lastWrite, allFollowUps,
                   followUps001, submissions, user, followUpForm, toast, taskVars, filterVars, leadTableVars, sessionVars>>

\* the submit without its two checks
SubmitFollowUpForm_unchecked(result) ==
    /\ modal = "followUp"
    /\ followUpForm # EmptyFollowUpForm
    /\ IF result = "ok"
       THEN /\ editingItem # NoItem \/ Len(table) < MaxRows
            /\ table' = IF editingItem # NoItem
                        THEN UpdateFollowUpForm(table, editingItem, followUpForm)
                        ELSE Append(table, NewRow(table, followUpForm))
            /\ followUpForm' = EmptyFollowUpForm
            /\ editingItem' = NoItem
            /\ modal' = "none"
            /\ toast' = IF editingItem # NoItem
                        THEN Toast("Follow-up updated successfully!", "success")
                        ELSE Toast("Follow-up scheduled successfully!", "success")
            /\ reloadArmed' = TRUE
       ELSE /\ toast' = IF editingItem # NoItem
                        THEN Toast("Failed to update follow-up", "error")
                        ELSE Toast("Failed to schedule follow-up", "error")
            /\ UNCHANGED <<table, followUpForm, editingItem, modal, reloadArmed>>
    /\ UNCHANGED <<now, tz, followUps, leadsWithFollowUps, rankVars, fetches,
                   notifications, submission, lastWrite, allFollowUps, followUps001,
                   submissions, user, taskForm, taskVars, filterVars, leadTableVars, sessionVars>>

\* addOrUpdateFollowUp: submit of the follow-up form
SubmitFollowUpForm(result) ==
    /\ modal = "followUp"
    /\ followUpForm # EmptyFollowUpForm
    /\ IF user = NoUser
       THEN /\ toast' = Toast("Please sign in to add follow-ups", "error")
            /\ UNCHANGED <<table, followUpForm, editingItem, modal, reloadArmed>>
       ELSE IF DateInPast(followUpForm, now)
       THEN /\ toast' = Toast("Follow-up date cannot be in the past!", "error")
            /\ UNCHANGED <<table, followUpForm, editingItem, modal, reloadArmed>>
       ELSE IF result = "ok"
       THEN /\ editingItem # NoItem \/ Len(table) < MaxRows
            /\ table' = IF editingItem # NoItem
                        THEN UpdateFollowUpForm(table, editingItem, followUpForm)
                        ELSE Append(table, NewRow(table, followUpForm))
            /\ followUpForm' = EmptyFollowUpForm
            /\ editingItem' = NoItem
            /\ modal' = "none"
            /\ toast' = IF editingItem # NoItem
                        THEN Toast("Follow-up updated successfully!", "success")
                        ELSE Toast("Follow-up scheduled successfully!", "success")
            /\ reloadArmed' = TRUE
       ELSE /\ toast' = IF editingItem # NoItem
                        THEN Toast("Failed to update follow-up", "error")
                        ELSE Toast("Failed to schedule follow-up", "error")
            /\ UNCHANGED <<table, followUpForm, editingItem, modal, reloadArmed>>
    /\ UNCHANGED <<now, tz, followUps, leadsWithFollowUps, rankVars, fetches,
                   notifications, submission, lastWrite, allFollowUps, followUps001,
                   submissions, user, taskForm, taskVars, filterVars, leadTableVars, sessionVars>>

\* addOrUpdateTask: submit of the task form
SubmitTaskForm(result) ==
    /\ modal = "task"
    /\ taskForm # EmptyTaskForm
    /\ IF user = NoUser
       THEN /\ toast' = Toast("Please sign in to add tasks", "error")
            /\ UNCHANGED <<tasks, taskForm, editingItem, modal, reloadArmed>>
       ELSE IF DueDateInPast(taskForm, now)
       THEN /\ toast' = Toast("Task due date cannot be in the past!", "error")
            /\ UNCHANGED <<tasks, taskForm, editingItem, modal, reloadArmed>>
       ELSE IF result = "ok"
       THEN /\ editingItem # NoItem \/ Len(tasks) < MaxRows
            /\ tasks' = IF editingItem # NoItem
                        THEN UpdateTaskForm(tasks, editingItem, taskForm)
                        ELSE Append(tasks, NewTask(tasks, taskForm))
            /\ taskForm' = EmptyTaskForm
            /\ editingItem' = NoItem
            /\ modal' = "none"
            /\ toast' = IF editingItem # NoItem
                        THEN Toast("Task updated successfully!", "success")
                        ELSE Toast("Task created successfully!", "success")
            /\ reloadArmed' = TRUE
       ELSE /\ toast' = IF editingItem # NoItem
                        THEN Toast("Failed to update task", "error")
                        ELSE Toast("Failed to create task", "error")
            /\ UNCHANGED <<tasks, taskForm, editingItem, modal, reloadArmed>>
    /\ UNCHANGED <<now, tz, followUps, leadsWithFollowUps, rankVars, table, fetches,
                   notifications, submission, lastWrite, allFollowUps, followUps001,
                   submissions, user, followUpForm, taskList, filterVars, leadTableVars, sessionVars>>

\* setTimeout(() => setToast(null), 3000)
ClearToast ==
    /\ toast # NoToast
    /\ toast' = NoToast
    /\ UNCHANGED <<now, tz, followUps, leadsWithFollowUps, rankVars, pageVars,
                   submissions, user, followUpForm, taskForm, taskVars, filterVars, leadTableVars, sessionVars>>

\* window.location.reload(): a fresh page, signed in from the stored session,
\* with the tasks fetched again
ReloadForms ==
    /\ reloadArmed
    /\ reloadArmed' = FALSE
    /\ modal' = "none"
    /\ editingItem' = NoItem
    /\ followUpForm' = EmptyFollowUpForm
    /\ taskForm' = EmptyTaskForm
    /\ toast' = NoToast
    /\ taskList' = TasksQuery(tasks)
    /\ UNCHANGED <<now, tz, followUps, leadsWithFollowUps, rankVars, table, fetches,
                   notifications, submission, lastWrite, allFollowUps, followUps001,
                   submissions, user, tasks, filterVars, leadTableVars, sessionVars>>

NextForms ==
    \/ OpenFollowUpModal
    \/ OpenTaskModal
    \/ \E i \in 1..MaxRows : editTask(i)
    \/ \E form \in FollowUpForms : setFollowUpForm(form)
    \/ \E form \in TaskForms : setTaskForm(form)
    \/ resetFollowUpForm
    \/ resetTaskForm
    \/ \E result \in Results : SubmitFollowUpForm(result)
    \/ \E result \in Results : SubmitTaskForm(result)
    \/ ClearToast
    \/ ReloadForms

SpecForms == InitForms /\ [][NextForms]_vars

(***************************************************************************)
(* fetchFollowUps with its error paths, one run at a time: a channel       *)
(* callback is taken only when no run is under way.                        *)
(***************************************************************************)
NoRunUnderWay == \A i \in DOMAIN fetches : fetches[i].stage = "done"

\* the follow_ups query of run i returns followUpsError: the run returns
FollowUpsQueryFails(i) ==
    /\ i \in DOMAIN fetches
    /\ fetches[i].stage = "sent"
    /\ fetches' = [fetches EXCEPT ![i].stage = "done"]
    /\ UNCHANGED <<auxVars, now, tz, followUps, leadsWithFollowUps, rankVars, table,
                   notifications, reloadArmed, modal, editingItem, submission, lastWrite,
                   allFollowUps, followUps001>>

\* the leads query of run i returns leadsError: the run returns after its
\* setFollowUps
LeadsQueryFails(i) ==
    /\ i \in DOMAIN fetches
    /\ fetches[i].stage = "leads"
    /\ fetches' = [fetches EXCEPT ![i].stage = "done"]
    /\ UNCHANGED <<auxVars, now, tz, followUps, leadsWithFollowUps, rankVars, table,
                   notifications, reloadArmed, modal, editingItem, submission, lastWrite,
                   allFollowUps, followUps001>>

NextFetchErrors ==
    \/ NoRunUnderWay /\ StartOnNotification
    \/ \E i \in 1..MaxFetches : AnswerFollowUps(i)
    \/ \E i \in 1..MaxFetches : FollowUpsQueryFails(i)
    \/ \E i \in 1..MaxFetches : SetFollowUps(i)
    \/ \E i \in 1..MaxFetches : SetLeadsWithFollowUps(i)
    \/ \E i \in 1..MaxFetches : LeadsQueryFails(i)
    \/ \E form \in FollowUpForms : Submit001(form)
    \/ CloseExisting001
    \/ Insert001

SpecFetchErrors == InitPage /\ [][NextFetchErrors]_vars

(***************************************************************************)
(* Other page version (part_001): followUps as the filtered view of        *)
(* allFollowUps.  fetchAllFollowUps sets both; the effect on               *)
(* [followUpFilter, allFollowUps] runs after every render in which one of  *)
(* the two has changed and is taken together with the update that causes   *)
(* it.  fetchAllData is memoized on [user], so the filter a run applies    *)
(* itself is the one of the render the callback was created in.  A run     *)
(* that has returned is dropped from fetches; as many runs overlap as Runs *)
(* has elements.  Follow-ups are also inserted by other sessions of the    *)
(* user, which the channel reports.                                        *)
(***************************************************************************)
Filters == {"all", "today"}

\* from('follow_ups').select('*, leads(full_name, email, is_active, status)')
\* .order('follow_up_date')
AllFollowUpsWithLeads(tbl, inactive) ==
    LET rows == OrderByFollowUpDate(tbl)
    IN  [i \in DOMAIN rows |->
            [id |-> rows[i].id, lead_id |-> rows[i].lead_id,
             follow_up_date |-> rows[i].follow_up_date, remarks |-> rows[i].remarks,
             completed |-> rows[i].completed, completed_at |-> rows[i].completed_at,
             leads |-> [is_active |-> rows[i].lead_id \notin inactive]]]

\* filter(f => !f.completed), filter(f => f.follow_up_date === today) when
\* the filter is 'today', filter(f => f.leads?.is_active !== false)
FilterFollowUps(all, filter, clock) ==
    SelectSeq(all, LAMBDA f :
        /\ ~f.completed
        /\ filter = "today" => f.follow_up_date = getTodayDate(clock)
        /\ f.leads.is_active)

\* the effect on [followUpFilter, allFollowUps]
FilterEffect(all, filter, clock, current) ==
    IF Len(all) > 0 THEN FilterFollowUps(all, filter, clock) ELSE current

Remove(s, i) == [k \in 1..(Len(s) - 1) |-> IF k < i THEN s[k] ELSE s[k + 1]]

InitFilter ==
    /\ now = PageClock
    /\ tz = 0
    /\ RankIdle
    /\ table \in InitialTables
    /\ fetches = <<NewFetch>>
    /\ notifications = 0
    /\ reloadArmed = FALSE
    /\ modal = "none"
    /\ editingItem = NoItem
    /\ submission = NoSubmission
    /\ lastWrite = NoWrite
    /\ allFollowUps = <<>>
    /\ followUps001 = <<>>
    /\ AuxIdle

\* setFollowUpFilter(filter) and the effect
setFollowUpFilter(filter) ==
    /\ filter # followUpFilter
    /\ followUpFilter' = filter
    /\ followUps001' = FilterEffect(allFollowUps, filter, now, followUps001)
    /\ UNCHANGED <<now, tz, followUps, leadsWithFollowUps, rankVars, table, fetches,
                   notifications, reloadArmed, modal, editingItem, submission, lastWrite,
                   allFollowUps, submissions, user, formVars, taskVars, inactiveLeads, leadTableVars, sessionVars>>

\* the backend executes the follow_ups query of run i
AnswerAllFollowUps(i) ==
    /\ i \in DOMAIN fetches
    /\ fetches[i].stage = "sent"
    /\ fetches' = [fetches EXCEPT ![i] =
            [stage |-> "answered", rows |-> AllFollowUpsWithLeads(table, inactiveLeads)]]
    /\ UNCHANGED <<auxVars, now, tz, followUps, leadsWithFollowUps, rankVars, table,
                   notifications, reloadArmed, modal, editingItem, submission, lastWrite,
                   allFollowUps, followUps001>>

\* run i resumes: setAllFollowUps, setFollowUps with the run's own filter, and
\* no effect after it
SetAllFollowUps_noEffect(i) ==
    /\ i \in DOMAIN fetches
    /\ fetches[i].stage = "answered"
    /\ allFollowUps' = fetches[i].rows
    /\ \E closureFilter \in Filters :
        followUps001' = FilterFollowUps(fetches[i].rows, closureFilter, now)
    /\ fetches' = Remove(fetches, i)
    /\ UNCHANGED <<auxVars, now, tz, followUps, leadsWithFollowUps, rankVars, table,
                   notifications, reloadArmed, modal, editingItem, submission, lastWrite>>

\* run i resumes: setAllFollowUps, setFollowUps with the run's own filter,
\* then the effect
SetAllFollowUps(i) ==
    /\ i \in DOMAIN fetches
    /\ fetches[i].stage = "answered"
    /\ allFollowUps' = fetches[i].rows
    /\ \E closureFilter \in Filters :
        followUps001' = FilterEffect(allFollowUps', followUpFilter, now,
                            FilterFollowUps(fetches[i].rows, closureFilter, now))
    /\ fetches' = Remove(fetches, i)
    /\ UNCHANGED <<auxVars, now, tz, followUps, leadsWithFollowUps, rankVars, table,
                   notifications, reloadArmed, modal, editingItem, submission, lastWrite>>

\* 'Complete' on the follow-up at position k of the list: the update, then
\* fetchAllData()
completeFollowUp001(k) ==
    /\ k \in DOMAIN followUps001
    /\ Len(fetches) < Cardinality(Runs)
    /\ table' = MarkCompleted(table, followUps001[k].id, now)
    /\ fetches' = Append(fetches, NewFetch)
    /\ UNCHANGED <<auxVars, now, tz, followUps, leadsWithFollowUps, rankVars,
                   notifications, reloadArmed, modal, editingItem, submission, lastWrite,
                   allFollowUps, followUps001>>

\* updateLeadActiveStatus(lead, isActive): the update, then fetchAllData()
updateLeadActiveStatus(lead, isActive) ==
    /\ Len(fetches) < Cardinality(Runs)
    /\ inactiveLeads' = IF isActive THEN inactiveLeads \ {lead}
                        ELSE inactiveLeads \cup {lead}
    /\ fetches' = Append(fetches, NewFetch)
    /\ UNCHANGED <<now, tz, followUps, leadsWithFollowUps, rankVars, table,
                   notifications, reloadArmed, modal, editingItem, submission, lastWrite,
                   allFollowUps, followUps001, submissions, user, formVars, taskVars, leadTableVars, sessionVars,
                   followUpFilter>>

\* another session of the user inserts a follow-up (its form has passed the
\* same date check)
OtherSessionInserts(form) ==
    /\ Len(table) < MaxRows
    /\ ~DateInPast(form, now)
    /\ notifications = 0
    /\ table' = Append(table, NewRow(table, form))
    /\ notifications' = 1
    /\ UNCHANGED <<auxVars, now, tz, followUps, leadsWithFollowUps, rankVars, fetches,
                   reloadArmed, modal, editingItem, submission, lastWrite, allFollowUps,
                   followUps001>>

NextFilter ==
    \/ \E filter \in Filters : setFollowUpFilter(filter)
    \/ \E i \in Runs : AnswerAllFollowUps(i)
    \/ \E i \in Runs : SetAllFollowUps(i)
    \/ \E k \in 1..MaxRows : completeFollowUp001(k)
    \/ \E lead \in Leads : \E isActive \in BOOLEAN : updateLeadActiveStatus(lead, isActive)
    \/ \E form \in FollowUpForms : OtherSessionInserts(form)
    \/ Len(fetches) < Cardinality(Runs) /\ StartOnNotification

SpecFilter == InitFilter /\ [][NextFilter]_vars

(***************************************************************************)
(* The lead table of LeadManagementSystem (src/unnamed/part_000): the      *)
(* leads of the backend, the page's copy of them, the filtered and sorted  *)
(* list, the selection and the pagination.  A lead is a record with its    *)
(* id, created_at (the later lead has the larger value) and status.  Of    *)
(* the filters only filters.status is followed, the other ones stay at     *)
(* their initial values, under which filterLeads lets every lead pass.     *)
(***************************************************************************)
\* most leads in the leads table
MaxLeadRows == 11
\* const itemsPerPage = 10
itemsPerPage == 10
\* the rows whose checkbox and delete button are clicked
ClickedLeads == {1, MaxLeadRows}
Statuses == {"new", "contacted"}
\* the column heads that call requestSort
SortKeys == {"status"}
\* the options of the status filter that are chosen
StatusFilters == {"all", "new"}
\* numbers of leads the backend holds when the page is opened
LeadCounts == {0, MaxLeadRows}

LeadRow(i) == [id |-> i, created_at |-> i,
            status |-> IF i % 2 = 1 THEN "new" ELSE "contacted"]

Min(a, b) == IF a < b THEN a ELSE b
Max(a, b) == IF a > b THEN a ELSE b
\* Math.ceil(n / d)
Ceil(n, d) == (n + d - 1) \div d

Ids(list) == {list[i].id : i \in DOMAIN list}

\* a[sortConfig.key], as a number that orders like the value
SortValue(lead, key) ==
    IF key = "created_at" THEN lead.created_at
    ELSE IF lead.status = "contacted" THEN 0 ELSE 1

\* the compare function of filtered.sort returns a negative number
ComesBefore(a, b, config) ==
    IF config.direction = "asc"
    THEN SortValue(a, config.key) < SortValue(b, config.key)
    ELSE SortValue(a, config.key) > SortValue(b, config.key)

\* Array.prototype.sort is stable
RECURSIVE SortFiltered(_, _)
SortFiltered(list, config) ==
    IF list = <<>> THEN <<>>
    ELSE LET sorted == SortFiltered(SubSeq(list, 1, Len(list) - 1), config)
             x == list[Len(list)]
             p == Cardinality({j \in DOMAIN sorted : ~ComesBefore(x, sorted[j], config)})
         IN SubSeq(sorted, 1, p) \o <<x>> \o SubSeq(sorted, p + 1, Len(sorted))

\* .from('leads').select('*').order('created_at', { ascending: false })
LeadsQuery(rows) ==
    SortFiltered(rows, [key |-> "created_at", direction |-> "desc"])

\* the list filterLeads hands to setFilteredLeads
FilterLeads_list(list, status, config) ==
    SortFiltered(SelectSeq(list, LAMBDA lead : status = "all" \/ lead.status = status),
              config)

indexOfLastItem == currentPage * itemsPerPage
indexOfFirstItem == indexOfLastItem - itemsPerPage
\* filteredLeads.slice(indexOfFirstItem, indexOfLastItem)
currentLeads ==
    SubSeq(filteredLeads, Min(indexOfFirstItem, Len(filteredLeads)) + 1,
           Min(indexOfLastItem, Len(filteredLeads)))
totalPages == Ceil(Len(filteredLeads), itemsPerPage)

InitLeadTable ==
    /\ now = PageClock
    /\ tz = 0
    /\ RankIdle
    /\ PageIdle
    /\ SubmissionsIdle /\ SignedIn /\ FormsIdle /\ TasksIdle /\ FilterIdle
    /\ SessionIdle
    /\ \E n \in LeadCounts : leadRows = [i \in 1..n |-> LeadRow(i)]
    /\ leads = <<>>
    /\ filteredLeads = <<>>
    /\ selectedLeads = {}
    /\ currentPage = 1
    /\ filters = [status |-> "all"]
    /\ sortConfig = [key |-> "created_at", direction |-> "desc"]
    /\ leadsFetches = 1
    /\ leadsEvents = 0

\* what no action of the lead table touches
LeadTableFrame ==
    UNCHANGED <<now, tz, followUps, leadsWithFollowUps, rankVars, pageVars,
                submissions, user, formVars, taskVars, filterVars, sessionVars>>

\* filterLeads without its setCurrentPage(1)
filterLeads_samePage(list, status, config) ==
    /\ filteredLeads' = FilterLeads_list(list, status, config)
    /\ currentPage' = currentPage

\* filterLeads, run by the effect on [filters, leads, sortConfig]
filterLeads(list, status, config) ==
    /\ filteredLeads' = FilterLeads_list(list, status, config)
    /\ currentPage' = 1

\* fetchLeads gets its answer; setLeads starts the effect that filters
FetchLeadsReturns(outcome) ==
    /\ leadsFetches > 0
    /\ leadsFetches' = leadsFetches - 1
    /\ IF outcome = "ok"
       THEN /\ leads' = LeadsQuery(leadRows)
            /\ filterLeads(leads', filters.status, sortConfig)
       ELSE UNCHANGED <<leads, filteredLeads, currentPage>>
    /\ UNCHANGED <<leadRows, selectedLeads, filters, sortConfig, leadsEvents>>
    /\ LeadTableFrame

\* the callback of the 'leads-changes' channel
OnLeadsChange ==
    /\ leadsEvents > 0
    /\ leadsFetches < Cardinality(Runs)
    /\ leadsEvents' = leadsEvents - 1
    /\ leadsFetches' = leadsFetches + 1
    /\ UNCHANGED <<leadRows, leads, filteredLeads, selectedLeads, currentPage,
                   filters, sortConfig>>
    /\ LeadTableFrame

\* the checkbox of a row
ToggleSelected(id) ==
    /\ id \in Ids(currentLeads)
    /\ selectedLeads' = IF id \in selectedLeads
                        THEN selectedLeads \ {id}
                        ELSE selectedLeads \cup {id}
    /\ UNCHANGED <<leadRows, leads, filteredLeads, currentPage, filters,
                   sortConfig, leadsFetches, leadsEvents>>
    /\ LeadTableFrame

\* the checkbox of the table head
ToggleSelectAll ==
    /\ LET checked == /\ Cardinality(selectedLeads) = Len(currentLeads)
                      /\ Len(currentLeads) > 0
       IN selectedLeads' = IF checked THEN {} ELSE Ids(currentLeads)
    /\ UNCHANGED <<leadRows, leads, filteredLeads, currentPage, filters,
                   sortConfig, leadsFetches, leadsEvents>>
    /\ LeadTableFrame

\* the button Clear Selection
ClearSelection ==
    /\ selectedLeads # {}
    /\ selectedLeads' = {}
    /\ UNCHANGED <<leadRows, leads, filteredLeads, currentPage, filters,
                   sortConfig, leadsFetches, leadsEvents>>
    /\ LeadTableFrame

\* .from('leads').delete() of the rows with these ids
DeleteRows(ids) == SelectSeq(leadRows, LAMBDA lead : lead.id \notin ids)

handleDelete(id, outcome) ==
    /\ id \in Ids(currentLeads)
    /\ leadsFetches < Cardinality(Runs)
    /\ leadsEvents < Cardinality(Runs)
    /\ IF outcome = "ok"
       THEN /\ leadRows' = DeleteRows({id})
            /\ leadsEvents' = IF leadRows' # leadRows THEN leadsEvents + 1
                              ELSE leadsEvents
            /\ leadsFetches' = leadsFetches + 1
       ELSE UNCHANGED <<leadRows, leadsEvents, leadsFetches>>
    /\ UNCHANGED <<leads, filteredLeads, selectedLeads, currentPage, filters,
                   sortConfig>>
    /\ LeadTableFrame

handleBulkDelete(outcome) ==
    /\ selectedLeads # {}
    /\ leadsFetches < Cardinality(Runs)
    /\ leadsEvents < Cardinality(Runs)
    /\ IF outcome = "ok"
       THEN /\ leadRows' = DeleteRows(selectedLeads)
            /\ leadsEvents' = IF leadRows' # leadRows THEN leadsEvents + 1
                              ELSE leadsEvents
            /\ selectedLeads' = {}
            /\ leadsFetches' = leadsFetches + 1
       ELSE UNCHANGED <<leadRows, leadsEvents, selectedLeads, leadsFetches>>
    /\ UNCHANGED <<leads, filteredLeads, currentPage, filters, sortConfig>>
    /\ LeadTableFrame

\* the select of the status filter
setFilters(status) ==
    /\ status # filters.status
    /\ filters' = [filters EXCEPT !.status = status]
    /\ filterLeads(leads, status, sortConfig)
    /\ UNCHANGED <<leadRows, leads, selectedLeads, leadsFetches, leadsEvents,
                   sortConfig>>
    /\ LeadTableFrame

requestSort(key) ==
    /\ sortConfig' =
           [key |-> key,
            direction |-> IF sortConfig.key = key /\ sortConfig.direction = "asc"
                          THEN "desc" ELSE "asc"]
    /\ filterLeads(leads, filters.status, sortConfig')
    /\ UNCHANGED <<leadRows, leads, selectedLeads, leadsFetches, leadsEvents,
                   filters>>
    /\ LeadTableFrame

\* what the three kinds of pagination buttons leave alone
PaginationFrame ==
    /\ UNCHANGED <<leadRows, leads, filteredLeads, selectedLeads, filters,
                   sortConfig, leadsFetches, leadsEvents>>
    /\ LeadTableFrame

PreviousPageButton ==
    /\ totalPages > 1
    /\ currentPage # 1
    /\ currentPage' = Max(currentPage - 1, 1)
    /\ PaginationFrame

NextPageButton ==
    /\ totalPages > 1
    /\ currentPage # totalPages
    /\ currentPage' = Min(currentPage + 1, totalPages)
    /\ PaginationFrame

PageNumber(i) ==
    /\ totalPages > 1
    /\ i \in 1..totalPages
    /\ currentPage' = i
    /\ PaginationFrame

\* another session deletes a lead
OtherSessionDeletesLead(id) ==
    /\ id \in Ids(leadRows)
    /\ leadsEvents < Cardinality(Runs)
    /\ leadRows' = DeleteRows({id})
    /\ leadsEvents' = leadsEvents + 1
    /\ UNCHANGED <<leads, filteredLeads, selectedLeads, currentPage, filters,
                   sortConfig, leadsFetches>>
    /\ LeadTableFrame

NextLeadTable ==
    \/ \E outcome \in Results : FetchLeadsReturns(outcome)
    \/ OnLeadsChange
    \/ \E id \in ClickedLeads : ToggleSelected(id)
    \/ ToggleSelectAll
    \/ ClearSelection
    \/ \E id \in ClickedLeads, outcome \in Results : handleDelete(id, outcome)
    \/ \E outcome \in Results : handleBulkDelete(outcome)
    \/ \E status \in StatusFilters : setFilters(status)
    \/ \E key \in SortKeys : requestSort(key)
    \/ PreviousPageButton
    \/ NextPageButton
    \/ \E i \in 1..Ceil(MaxLeadRows, itemsPerPage) : PageNumber(i)
    \/ \E id \in ClickedLeads : OtherSessionDeletesLead(id)

SpecLeadTable == InitLeadTable /\ [][NextLeadTable]_vars

(***************************************************************************)
(* toggleTaskComplete (page.tsx 770-784, part_001 637-651): the checkbox   *)
(* of a task writes the negation of the completed flag of the task object  *)
(* it was rendered with.  The two versions differ in how the list is       *)
(* refreshed afterwards: page.tsx reloads the page one second later,       *)
(* part_001 calls fetchAllData, of which fetchTasks is followed here.      *)
(* taskToggles counts, per task, the calls that returned without error.    *)
(***************************************************************************)
\* most successful toggles of one task that are followed
MaxToggles == 2

\* .update({ completed: !task.completed }).eq('id', task.id)
UpdateCompleted(tbl, task) ==
    [k \in DOMAIN tbl |->
        IF tbl[k].id = task.id
        THEN [tbl[k] EXCEPT !.completed = ~task.completed]
        ELSE tbl[k]]

ToggleToast(task) ==
    Toast(IF task.completed THEN "Task marked as incomplete" ELSE "Task completed!",
          "success")

\* page.tsx: the checkbox of the task at position i of the list
toggleTaskComplete(i, result) ==
    /\ user # NoUser
    /\ i \in DOMAIN taskList
    /\ taskToggles[taskList[i].id] < MaxToggles
    /\ IF result = "ok"
       THEN /\ tasks' = UpdateCompleted(tasks, taskList[i])
            /\ taskToggles' = [taskToggles EXCEPT ![taskList[i].id] = @ + 1]
            /\ toast' = ToggleToast(taskList[i])
            /\ reloadArmed' = TRUE
       ELSE /\ toast' = Toast("Failed to update task", "error")
            /\ UNCHANGED <<tasks, taskToggles, reloadArmed>>
    /\ UNCHANGED <<now, tz, followUps, leadsWithFollowUps, rankVars, table, fetches,
                   notifications, modal, editingItem, submission, lastWrite,
                   allFollowUps, followUps001, submissions, user, followUpForm,
                   taskForm, taskList, filterVars, leadTableVars, channels, mounted>>

\* part_001: the same checkbox; fetchAllData() instead of the reload
toggleTaskComplete001(i, result) ==
    /\ user # NoUser
    /\ i \in DOMAIN taskList
    /\ taskToggles[taskList[i].id] < MaxToggles
    /\ Len(fetches) < Cardinality(Runs)
    /\ IF result = "ok"
       THEN /\ tasks' = UpdateCompleted(tasks, taskList[i])
            /\ taskToggles' = [taskToggles EXCEPT ![taskList[i].id] = @ + 1]
            /\ toast' = ToggleToast(taskList[i])
            /\ fetches' = Append(fetches, NewFetch)
       ELSE /\ toast' = Toast("Failed to update task", "error")
            /\ UNCHANGED <<tasks, taskToggles, fetches>>
    /\ UNCHANGED <<now, tz, followUps, leadsWithFollowUps, rankVars, table,
                   notifications, reloadArmed, modal, editingItem, submission,
                   lastWrite, allFollowUps, followUps001, submissions, user,
                   followUpForm, taskForm, taskList, filterVars, leadTableVars,
                   channels, mounted>>

\* part_001: fetchTasks of run i is answered: if (!error && data) setTasks(data)
SetTasks001(i, result) ==
    /\ i \in DOMAIN fetches
    /\ fetches' = Remove(fetches, i)
    /\ taskList' = IF result = "ok" THEN TasksQuery(tasks) ELSE taskList
    /\ UNCHANGED <<now, tz, followUps, leadsWithFollowUps, rankVars, table,
                   notifications, reloadArmed, modal, editingItem, submission,
                   lastWrite, allFollowUps, followUps001, submissions, user,
                   formVars, tasks, filterVars, leadTableVars, sessionVars>>

NextTasks ==
    \/ OpenTaskModal
    \/ \E form \in TaskForms : setTaskForm(form)
    \/ resetTaskForm
    \/ \E result \in Results : SubmitTaskForm(result)
    \/ \E i \in 1..MaxRows, result \in Results : toggleTaskComplete(i, result)
    \/ \E i \in 1..MaxRows, result \in Results : toggleTaskComplete001(i, result)
    \/ \E i \in Runs, result \in Results : SetTasks001(i, result)
    \/ ClearToast
    \/ ReloadForms

SpecTasks == InitForms /\ [][NextTasks]_vars

(***************************************************************************)
(* The realtime subscriptions of the page (page.tsx 141-146 and 220-279,   *)
(* part_001 147-152 and 227-286).  The effect on [user, fetchAllData]      *)
(* calls setupRealtimeSubscriptions() and drops the function it returns,   *)
(* so nothing calls removeChannel.  channels counts, per table, the        *)
(* subscriptions that are active; every one of them hands a change of its  *)
(* table to its callback, which calls fetchAllData.                        *)
(***************************************************************************)
\* onAuthStateChange with a session while a user is set (a refreshed token):
\* handleUserSession calls setUser with a new object and the effect runs again
RefreshSession ==
    /\ user # NoUser
    /\ Len(fetches) < MaxFetches
    /\ \A t \in Tables : channels[t] < MaxChannels
    /\ fetches' = Append(fetches, NewFetch)
    /\ \E fresh \in BOOLEAN : channels' = Subscribed(channels, fresh)
    /\ UNCHANGED <<now, tz, followUps, leadsWithFollowUps, rankVars, table,
                   notifications, reloadArmed, modal, editingItem, submission,
                   lastWrite, allFollowUps, followUps001, submissions, user,
                   formVars, taskVars, filterVars, leadTableVars, taskToggles,
                   mounted>>

\* the component is unmounted: the effect has no cleanup
Unmount ==
    /\ mounted
    /\ mounted' = FALSE
    /\ UNCHANGED <<now, tz, followUps, leadsWithFollowUps, rankVars, pageVars,
                   submissions, user, formVars, taskVars, filterVars,
                   leadTableVars, taskToggles, channels>>

\* a row of table t changes in the backend: one event per subscription
BackendChange(t) ==
    /\ notifications = 0
    /\ channels[t] > 0
    /\ notifications' = channels[t]
    /\ UNCHANGED <<auxVars, now, tz, followUps, leadsWithFollowUps, rankVars, table,
                   fetches, reloadArmed, modal, editingItem, submission, lastWrite,
                   allFollowUps, followUps001>>

NextChannels ==
    \/ mounted /\ SignOut
    \/ mounted /\ SignIn
    \/ mounted /\ RefreshSession
    \/ Unmount
    \/ \E t \in Tables : BackendChange(t)
    \/ StartOnNotification
    \/ \E i \in 1..MaxFetches : AnswerFollowUps(i)
    \/ \E i \in 1..MaxFetches : SetFollowUps(i)
    \/ \E i \in 1..MaxFetches : SetLeadsWithFollowUps(i)

SpecChannels == InitPage /\ [][NextChannels]_vars

(***************************************************************************)
(* Vocabulary of the properties                                            *)
(***************************************************************************)
\* the record's date parses
HasDay(f) == ~ParseDate(f.follow_up_date).nan
\* its calendar day, as the page shows it: the local day of the parsed date
CalendarDay(f) == LocalDay(ParseDate(f.follow_up_date), tz)
\* its original, non-truncated timestamp
Timestamp(f) == ParseDate(f.follow_up_date).n
\* the local calendar day of the clock
Today == LocalDay(Num(now), tz)

IsToday(f) == HasDay(f) /\ CalendarDay(f) = Today
IsUpcoming(f) == HasDay(f) /\ CalendarDay(f) > Today
IsPast(f) == HasDay(f) /\ CalendarDay(f) < Today

Ranked == pc # "fetched"
Built == pc \in {"built", "reranked"}

\* the ranked lists the page holds: the global one and, once built, each lead's
RankedLists ==
    (IF Ranked THEN {followUps} ELSE {})
        \cup (IF Built THEN {leadFollowUps[l] : l \in Leads} ELSE {})

Count(s, x) == Cardinality({i \in DOMAIN s : s[i] = x})

\* position of the record with id k in s (0 when absent)
PositionOf(s, k) ==
    IF \E i \in DOMAIN s : s[i].id = k
    THEN CHOOSE i \in DOMAIN s : s[i].id = k
    ELSE 0

(***************************************************************************)
(* C1: the ranked list holds exactly the records of the input, each as     *)
(* often as the input and with every field unchanged; only the order may   *)
(* differ (the empty input gives the empty list).                          *)
(***************************************************************************)
RankIsPermutation ==
    Ranked =>
        /\ Len(followUps) = Len(response)
        /\ \A x \in Range(response) \cup Range(followUps) :
            Count(followUps, x) = Count(response, x)

\* the ranking acted on a full-length input and changed its order
RankReordered ==
    /\ pc = "ranked"
    /\ Len(response) >= 3
    /\ followUps # response
    /\ \E i \in DOMAIN response : ~HasDay(response[i])

UpcomingNeverAfterPast ==
    \A list \in RankedLists : \A i, j \in DOMAIN list :
        (i < j /\ IsUpcoming(list[j])) => ~IsPast(list[i])

\* one lead's rows arrived with a past one ahead of an upcoming one
UpcomingMovedForward ==
    /\ Built
    /\ \E i, j \in DOMAIN response :
        /\ i < j /\ response[i].lead_id = response[j].lead_id
        /\ IsPast(response[i]) /\ IsUpcoming(response[j])

(***************************************************************************)
(* C5: of two records classified Upcoming the one with the earlier date    *)
(* comes first in a ranked list.                                           *)
(***************************************************************************)
UpcomingSoonestFirst ==
    \A list \in RankedLists : \A i, j \in DOMAIN list :
        (i < j /\ IsUpcoming(list[i]) /\ IsUpcoming(list[j]))
            => CalendarDay(list[i]) <= CalendarDay(list[j])

\* two upcoming records of different days arrived latest first
UpcomingReordered ==
    /\ Built
    /\ \E i, j \in DOMAIN response :
        /\ i < j /\ IsUpcoming(response[i]) /\ IsUpcoming(response[j])
        /\ CalendarDay(response[i]) > CalendarDay(response[j])

(***************************************************************************)
(* C10: for a fixed clock, ranking the ranked list returns it unchanged.   *)
(***************************************************************************)
RankIdempotent == pc = "reranked" => reranked = followUps

\* the list ranked twice was reordered by the first ranking
RerankedAfterReorder ==
    /\ pc = "reranked"
    /\ Len(response) >= 3
    /\ followUps # response

(***************************************************************************)
(* C4: of two records classified Today the one with the earlier original   *)
(* timestamp comes first, in the global list and in each lead's list.      *)
(***************************************************************************)
TodayEarliestFirst ==
    \A list \in RankedLists : \A i, j \in DOMAIN list :
        (i < j /\ IsToday(list[i]) /\ IsToday(list[j]))
            => Timestamp(list[i]) <= Timestamp(list[j])

(***************************************************************************)
(* C6: of two records classified Past the one with the later date comes    *)
(* first in a ranked list.                                                 *)
(***************************************************************************)
PastMostRecentFirst ==
    \A list \in RankedLists : \A i, j \in DOMAIN list :
        (i < j /\ IsPast(list[i]) /\ IsPast(list[j]))
            => CalendarDay(list[i]) >= CalendarDay(list[j])

(***************************************************************************)
(* C7: with today = 2024-06-10 the follow-ups dated 06-12, 06-10, 06-08,   *)
(* 06-09 are ranked 06-10, 06-12, 06-09, 06-08, whatever their order in    *)
(* the input.                                                              *)
(***************************************************************************)
ScenarioOrder ==
    Ranked => [i \in DOMAIN followUps |-> followUps[i].follow_up_date.v] = ScenarioExpected

(***************************************************************************)
(* C8: two records of the same bucket with equal date/timestamp keep their *)
(* input order in the ranked list.                                         *)
(***************************************************************************)
RankStable ==
    Ranked =>
        \A i, j \in DOMAIN response :
            (/\ i < j
             /\ HasDay(response[i]) /\ HasDay(response[j])
             /\ Timestamp(response[i]) = Timestamp(response[j]))
                => PositionOf(followUps, response[i].id)
                       < PositionOf(followUps, response[j].id)

(***************************************************************************)
(* C9: each comparator is a strict weak ordering over the records it is    *)
(* given, unparseable dates included: "before" (a negative result) is      *)
(* irreflexive, asymmetric and transitive, and "compares equal" (result 0  *)
(* or NaN) is transitive.                                                  *)
(***************************************************************************)
Before(C(_, _), a, b) == ~C(a, b).nan /\ C(a, b).n < 0
ComparesEqual(C(_, _), a, b) == C(a, b).nan \/ C(a, b).n = 0

IsStrictWeakOrdering(C(_, _), S) ==
    /\ \A a \in S : ~Before(C, a, a)
    /\ \A a, b \in S : Before(C, a, b) => ~Before(C, b, a)
    /\ \A a, b, c \in S : (Before(C, a, b) /\ Before(C, b, c)) => Before(C, a, c)
    /\ \A a, b, c \in S :
        (ComparesEqual(C, a, b) /\ ComparesEqual(C, b, c)) => ComparesEqual(C, a, c)

ComparatorsAreStrictWeakOrderings ==
    LET Global(a, b) == CompareFollowUps(a, b, now, tz)
        Lead(a, b) == CompareLeadFollowUps(a, b, now, tz)
    IN  /\ IsStrictWeakOrdering(Global, Range(response))
        /\ IsStrictWeakOrdering(Lead, Range(response))

(***************************************************************************)
(* C11: in a ranked list a record whose follow_up_date cannot be parsed    *)
(* comes after every record that has a valid date, wherever it stood in    *)
(* the input.                                                              *)
(***************************************************************************)
UnparseableLast ==
    \A list \in RankedLists : \A i, j \in DOMAIN list :
        (i < j /\ HasDay(list[j])) => HasDay(list[i])

(***************************************************************************)
(* C15: each lead's follow_ups list is the global ranked list restricted   *)
(* to that lead: the two comparators order every pair the same way.        *)
(***************************************************************************)
LeadListIsRestriction ==
    Built => \A l \in Leads :
        leadFollowUps[l] = SelectSeq(followUps, LAMBDA f : f.lead_id = l)

(***************************************************************************)
(* C12: every place that classifies a follow-up gives the bucket of its    *)
(* calendar day: a follow-up is in the tab's past list exactly when its    *)
(* calendar day is before today (a record without a valid date counting as *)
(* Past, as the comparators take it), and in the tab's upcoming list       *)
(* exactly when its day is today or later.                                 *)
(***************************************************************************)
TabSplitByCalendarDay ==
    Built => \A l \in Leads : \A i \in DOMAIN leadFollowUps[l] :
        LET f == leadFollowUps[l][i]
            inPast == \E k \in DOMAIN PastFollowUps(leadFollowUps[l], now) :
                          PastFollowUps(leadFollowUps[l], now)[k] = f
            inUpcoming == \E k \in DOMAIN UpcomingFollowUps(leadFollowUps[l], now) :
                              UpcomingFollowUps(leadFollowUps[l], now)[k] = f
        IN  /\ inPast <=> ~(IsToday(f) \/ IsUpcoming(f))
            /\ inUpcoming <=> (IsToday(f) \/ IsUpcoming(f))

(***************************************************************************)
(* C17: a pending follow-up carries the overdue marker exactly when its    *)
(* calendar day is before today; one dated today is never marked.          *)
(***************************************************************************)
OverdueIffPast ==
    Built => \A l \in Leads : \A i \in DOMAIN leadFollowUps[l] :
        OverdueMarker(leadFollowUps[l][i], now) <=> IsPast(leadFollowUps[l][i])

(***************************************************************************)
(* C13: the ranked list is the ranking of the query answer for one value   *)
(* of the clock: every comparison of a run has used the same today, also   *)
(* when the clock advances while the sort runs.                            *)
(***************************************************************************)
RankUsesOneToday ==
    Ranked => \E clock \in Clocks : followUps = SortFollowUpsData(response, clock, tz)

(***************************************************************************)
(* C14: of two leads that each have a pending follow-up, the one whose     *)
(* best-ranked follow-up (its first in the global ranking) ranks strictly  *)
(* before the other's comes first in leadsWithFollowUps.                   *)
(***************************************************************************)
BestFollowUp(lead) ==
    followUps[CHOOSE i \in DOMAIN followUps :
                /\ followUps[i].lead_id = lead
                /\ \A k \in DOMAIN followUps : followUps[k].lead_id = lead => i <= k]

LeadsByBestFollowUp ==
    pc = "leads" => \A i, j \in DOMAIN leadsWithFollowUps :
        (/\ i < j
         /\ leadsWithFollowUps[i].follow_ups # <<>>
         /\ leadsWithFollowUps[j].follow_ups # <<>>)
        => LET later == CompareFollowUps(BestFollowUp(leadsWithFollowUps[j].id),
                                         BestFollowUp(leadsWithFollowUps[i].id), now, tz)
           IN  ~(~later.nan /\ later.n < 0)

(***************************************************************************)
(* C16: after any sequence of create, complete and refresh operations no   *)
(* pending-work collection (followUps, the follow_ups list of a lead in    *)
(* leadsWithFollowUps, the other version's followUps) holds a follow-up    *)
(* that was completed in the data it was fetched from.                     *)
(***************************************************************************)
PendingCollections ==
    {followUps, followUps001}
        \cup {leadsWithFollowUps[k].follow_ups : k \in DOMAIN leadsWithFollowUps}

NoCompletedInPending ==
    \A list \in PendingCollections : \A i \in DOMAIN list : ~list[i].completed

\* followUps lists a follow-up that was created after one that is now
\* completed, and does not list the completed one
PendingAfterCompletion ==
    \E i, j \in DOMAIN table :
        /\ i < j
        /\ table[i].completed
        /\ \E k \in DOMAIN followUps : followUps[k].id = table[j].id
        /\ \A k \in DOMAIN followUps : followUps[k].id # table[i].id

(***************************************************************************)
(* C18: a follow-up that is completed stays completed, and no step changes *)
(* its follow_up_date, remarks or lead_id; only completed_at may change.   *)
(***************************************************************************)
CompletedIsImmutable ==
    [][\A i \in DOMAIN table :
          table[i].completed =>
              /\ i \in DOMAIN table'
              /\ table'[i].completed
              /\ table'[i].id = table[i].id
              /\ table'[i].lead_id = table[i].lead_id
              /\ table'[i].follow_up_date = table[i].follow_up_date
              /\ table'[i].remarks = table[i].remarks]_vars

\* the backend has executed an update on a follow-up that was already completed
CompletedWrittenAgain ==
    lastWrite.op = "update" /\ lastWrite.wasCompleted

(***************************************************************************)
(* C19: every fetchAllData run started (by the page load or by a change    *)
(* notification) is eventually followed by a state in which followUps is   *)
(* the ranked answer of that run or of a later one, unless the page is     *)
(* reloaded, in which case the load's own run is.                          *)
(***************************************************************************)
Started(i) == i \in DOMAIN fetches /\ fetches[i].stage = "sent"

Refreshed(i) ==
    \E k \in DOMAIN fetches :
        /\ k >= i
        /\ fetches[k].stage \in {"leads", "done"}
        /\ followUps = fetches[k].rows
        /\ SortFollowUpsData(followUps, now, tz) = followUps

NotificationRefreshes ==
    \A i \in 1..MaxFetches : Started(i) ~> (Refreshed(i) \/ Len(fetches) < i)

\* a run started by a notification has put a ranking into followUps that
\* differs from the order of the query
RefreshedByNotification ==
    /\ Len(fetches) >= 2
    /\ fetches[2].stage \in {"leads", "done"}
    /\ followUps = fetches[2].rows
    /\ followUps # OrderByFollowUpDate(followUps)

(***************************************************************************)
(* C20: at most one fetchAllData run is in flight, and once every run has  *)
(* finished followUps holds the data of the run started last.              *)
(***************************************************************************)
InFlight == {i \in DOMAIN fetches : fetches[i].stage # "done"}

OneRefreshLatestWins ==
    /\ Cardinality(InFlight) <= 1
    /\ (fetches # <<>> /\ InFlight = {}) => followUps = fetches[Len(fetches)].rows

(***************************************************************************)
(* C21: the follow-up a card of the follow-ups tab shows as 'Next          *)
(* Follow-up' and hands to completeFollowUp is the first element of the    *)
(* lead's ranked follow_ups list.                                          *)
(***************************************************************************)
NextIsBestRanked ==
    Built => \A l \in Leads :
        leadFollowUps[l] # <<>> =>
            /\ SortedFollowUps(leadFollowUps[l], now) # <<>>
            /\ SortedFollowUps(leadFollowUps[l], now)[1] = leadFollowUps[l][1]

(***************************************************************************)
(* C22: in the other page version, after any sequence of                   *)
(* addOrUpdateFollowUp submissions, overlapping ones and ones whose        *)
(* updates are refused included, no lead has more than one follow-up with  *)
(* completed = false.                                                      *)
(***************************************************************************)
PendingOfLead(lead) == {i \in DOMAIN table : table[i].lead_id = lead /\ ~table[i].completed}

OnePendingPerLead == \A lead \in Leads : Cardinality(PendingOfLead(lead)) <= 1

(***************************************************************************)
(* C23: while user is null after a sign-out, the record collections of the *)
(* page state are empty, also when a fetch that started before the         *)
(* sign-out returns afterwards.                                            *)
(***************************************************************************)
SignedOutHoldsNothing ==
    user = NoUser => (followUps = <<>> /\ leadsWithFollowUps = <<>>)

(***************************************************************************)
(* C24: addOrUpdateFollowUp and addOrUpdateTask, called with a date        *)
(* earlier than today's date or with no signed-in user, write nothing to   *)
(* the backend and leave the form, editingItem and the modal as they are:  *)
(* the error toast is the only change.                                     *)
(***************************************************************************)
RejectedSubmitOnlyToasts ==
    [][/\ ((\E result \in Results : SubmitFollowUpForm(result))
             /\ (DateInPast(followUpForm, now) \/ user = NoUser))
          => (/\ toast'.type = "error"
              /\ UNCHANGED <<table, tasks, followUpForm, taskForm, editingItem, modal,
                             reloadArmed, taskList, user>>)
       /\ ((\E result \in Results : SubmitTaskForm(result))
             /\ (DueDateInPast(taskForm, now) \/ user = NoUser))
          => (/\ toast'.type = "error"
              /\ UNCHANGED <<table, tasks, followUpForm, taskForm, editingItem, modal,
                             reloadArmed, taskList, user>>)]_vars

\* the follow-up form has just been refused for its date
RefusedForPastDate ==
    /\ toast = Toast("Follow-up date cannot be in the past!", "error")
    /\ modal = "followUp"
    /\ DateInPast(followUpForm, now)
    /\ Len(table) < MaxRows

(***************************************************************************)
(* C25: whenever fetchFollowUps has returned, by whichever path, a         *)
(* follow-up is in followUps exactly when it is in the follow_ups list of  *)
(* its lead in leadsWithFollowUps.                                         *)
(***************************************************************************)
InListOfItsLead(f) ==
    \E k \in DOMAIN leadsWithFollowUps :
        /\ leadsWithFollowUps[k].id = f.lead_id
        /\ \E j \in DOMAIN leadsWithFollowUps[k].follow_ups :
            leadsWithFollowUps[k].follow_ups[j] = f

ListedFollowUps ==
    UNION {Range(leadsWithFollowUps[k].follow_ups) : k \in DOMAIN leadsWithFollowUps}

FollowUpsAgreeWithLeads ==
    (fetches # <<>> /\ NoRunUnderWay) =>
        /\ \A f \in Range(followUps) : InListOfItsLead(f)
        /\ \A f \in ListedFollowUps : f \in Range(followUps) /\ InListOfItsLead(f)

(***************************************************************************)
(* C26: in the other page version, whenever no fetch is in flight,         *)
(* followUps holds exactly the elements of allFollowUps that are not       *)
(* completed, whose lead is not marked inactive and, when the filter is    *)
(* 'today', whose follow_up_date is today's date, in whatever order filter *)
(* changes, mutations and refreshes have occurred.                         *)
(***************************************************************************)
IsShown(f) ==
    /\ ~f.completed
    /\ f.leads.is_active
    /\ followUpFilter = "today" => f.follow_up_date = getTodayDate(now)

SelectedLeadsArePresent == selectedLeads \subseteq Ids(leads)

TogglesFlipStoredFlag ==
    \A k \in DOMAIN tasks :
        tasks[k].completed = (taskToggles[tasks[k].id] % 2 = 1)

(***************************************************************************)
(* C30: the page holds at most one active realtime subscription per table, *)
(* and none once the user is signed out or the component is unmounted.     *)
(***************************************************************************)
OneSubscriptionPerTable ==
    \A t \in Tables :
        /\ channels[t] <= 1
        /\ (user = NoUser \/ ~mounted) => channels[t] = 0

====
